---- MODULE Spec2Model ----
(***************************************************************************)
(* Account pool scheduler and media collection orchestrator of the         *)
(* Instagram media extractor (app/core/account_pool.py, app/models.py,     *)
(* app/core/media_collector.py).                                           *)
(*                                                                         *)
(* Time is counted in minutes since midnight of day 0.  A timestamp that   *)
(* may be absent (Optional[datetime]) is a sequence: <<>> for None and     *)
(* <<t>> for the instant t.                                                *)
(***************************************************************************)
EXTENDS Integers, Sequences, FiniteSets, TLC

VARIABLES
    accounts,   \* AccountPool.accounts: the ordered list of InstagramAccount
    clients,    \* AccountPool.clients: usernames with a cached Client
    pool_file,  \* content of data/account_pool.json
    settings,   \* Settings: the two pool settings the scheduler reads
    now,        \* datetime.now(), in minutes
    runs,       \* the collect_user_media coroutines in flight, one per run id
    ev          \* the last step taken and what it returned to its caller

vars == <<accounts, clients, pool_file, settings, now, runs, ev>>

---------------------------------------------------------------------------
(* Bounds of the model *)

\* operations the pool records, failed operations and failed logins among
\* them, and hours that pass
MaxOps == 2
MaxErrors == 1
MaxTicks == 3

\* the usernames add_account was given, in the order of the pool file
Usernames == <<"acc1", "acc2">>

\* the collect_user_media calls that may overlap
RunIds == {1, 2}

---------------------------------------------------------------------------
(* Constants of the program *)

\* models.py: is_available hard-codes its cooldown and its daily limit
HardCooldownMinutes == 120
HardDailyLimit == 100
\* config.py: defaults of the two pool settings
DefaultCooldownMinutes == 120
DefaultMaxDailyOperations == 100

ACTIVE == "active"
COOLDOWN == "cooldown"
DEAD == "dead"
CHALLENGE == "challenge"
LOGIN_REQUIRED == "login_required"

AccountStatus == {ACTIVE, COOLDOWN, DEAD, CHALLENGE, LOGIN_REQUIRED}

None == <<>>

MinutesPerDay == 24 * 60

\* datetime.date(): the calendar day of an instant
DateOf(t) == t \div MinutesPerDay

Min(a, b) == IF a < b THEN a ELSE b
Max(a, b) == IF a > b THEN a ELSE b

---------------------------------------------------------------------------
(* Settings: the default configuration, and one set through the            *)
(* environment variables MAX_DAILY_OPERATIONS_PER_ACCOUNT and              *)
(* ACCOUNT_COOLDOWN_MINUTES.                                               *)

Configs ==
    { [max_daily_operations_per_account |-> DefaultMaxDailyOperations,
       account_cooldown_minutes |-> DefaultCooldownMinutes],
      [max_daily_operations_per_account |-> 2,
       account_cooldown_minutes |-> DefaultCooldownMinutes] }

RECURSIVE SumOver(_, _)
SumOver(f, S) ==
    IF S = {} THEN 0
    ELSE LET x == CHOOSE y \in S : TRUE IN f[x] + SumOver(f, S \ {x})

---------------------------------------------------------------------------
(* InstagramAccount *)

\* InstagramAccount(username=...): the field defaults of the model class
NewAccount(u) ==
    [username |-> u,
     status |-> ACTIVE,
     last_used |-> None,
     operations_today |-> 0,
     health_score |-> 100,
     total_operations |-> 0,
     total_errors |-> 0]

\* InstagramAccount.is_available
IsAvailable(acc, t) ==
    IF acc.status # ACTIVE THEN FALSE
    ELSE IF acc.last_used # None /\ t - acc.last_used[1] < HardCooldownMinutes
         THEN FALSE
    ELSE IF acc.operations_today >= HardDailyLimit THEN FALSE
    ELSE TRUE

\* AccountPool._is_account_available_fallback
IsAccountAvailableFallback(acc, t, cfg) ==
    IF acc.status # ACTIVE THEN FALSE
    ELSE IF acc.operations_today >= cfg.max_daily_operations_per_account
         THEN FALSE
    ELSE IF acc.last_used # None
            /\ t - acc.last_used[1] < cfg.account_cooldown_minutes
         THEN FALSE
    ELSE TRUE

\* an update_health_score whose failure branch has no floor
UpdateHealthScoreNoFloor(acc, success) ==
    IF success
    THEN [acc EXCEPT !.health_score = Min(100, acc.health_score + 1)]
    ELSE [acc EXCEPT !.health_score = acc.health_score - 5,
                     !.total_errors = acc.total_errors + 1]

\* an update_health_score whose success branch has no cap
UpdateHealthScoreNoCap(acc, success) ==
    IF success
    THEN [acc EXCEPT !.health_score = acc.health_score + 1]
    ELSE [acc EXCEPT !.health_score = Max(0, acc.health_score - 5),
                     !.total_errors = acc.total_errors + 1]

\* InstagramAccount.update_health_score
UpdateHealthScore(acc, success) ==
    IF success
    THEN [acc EXCEPT !.health_score = Min(100, acc.health_score + 1)]
    ELSE [acc EXCEPT !.health_score = Max(0, acc.health_score - 5),
                     !.total_errors = acc.total_errors + 1]

\* InstagramAccount.mark_used
MarkUsed(acc, t) ==
    [acc EXCEPT !.last_used = <<t>>,
                !.operations_today = acc.operations_today + 1,
                !.total_operations = acc.total_operations + 1]

---------------------------------------------------------------------------
(* AccountPool *)

\* a pool that reports no username as taken
UsernamesOfNone(accs) == {}

UsernamesOf(accs) == {accs[i].username : i \in 1..Len(accs)}

\* position of the record with this username in the list, 0 when absent
IndexOf(accs, u) ==
    IF u \in UsernamesOf(accs)
    THEN CHOOSE i \in 1..Len(accs) : accs[i].username = u
    ELSE 0

\* get_available_account: the list built by the first loop.  is_available()
\* compares fields only and never raises, so the except branch that calls
\* _is_account_available_fallback is not taken.
AvailableAccounts(accs, t) == {i \in 1..Len(accs) : IsAvailable(accs[i], t)}

\* get_available_account: calculate_score, times 5 * 100 * 1440 * the daily
\* limit so that the three weighted terms are integers
CalculateScore(acc, t, cfg) ==
    LET limit == cfg.max_daily_operations_per_account
        minutes == IF acc.last_used # None
                   THEN Min(MinutesPerDay, t - acc.last_used[1])
                   ELSE MinutesPerDay
    IN  2 * acc.health_score * MinutesPerDay * limit
        + 2 * minutes * 100 * limit
        + (limit - acc.operations_today) * 100 * MinutesPerDay

\* get_available_account: max(available_accounts, key=calculate_score), the
\* first of the maximal elements in list order
BestAccount(accs, t, cfg) ==
    LET avail == AvailableAccounts(accs, t)
        score(i) == CalculateScore(accs[i], t, cfg)
    IN  CHOOSE i \in avail :
            \A j \in avail : score(i) > score(j)
                             \/ (score(i) = score(j) /\ i <= j)

\* a fallback loop without its status test: the first record of the list
FallbackAnyAccount(accs) == IF Len(accs) > 0 THEN 1 ELSE 0

\* get_available_account: the loop entered when no account is available,
\* returning the first record whose status is ACTIVE
FallbackAccount(accs) ==
    LET act == {i \in 1..Len(accs) : accs[i].status = ACTIVE}
    IN  IF act = {} THEN 0
        ELSE CHOOSE i \in act : \A j \in act : i <= j

\* get_available_account: the index of the returned record, 0 for None
GetAvailableAccount(accs, t, cfg) ==
    IF AvailableAccounts(accs, t) = {}
    THEN FallbackAccount(accs)
    ELSE BestAccount(accs, t, cfg)

\* which return statement of get_available_account was taken
SelectionPath(accs, t) ==
    IF AvailableAccounts(accs, t) # {} THEN "normal"
    ELSE IF FallbackAccount(accs) # 0 THEN "fallback"
    ELSE "none"

\* mark_account_used with the limit of is_available in place of the setting
MarkAccountUsedHardLimit(acc, success, t, cfg) ==
    LET used == UpdateHealthScore(MarkUsed(acc, t), success)
    IN  IF used.operations_today >= HardDailyLimit
        THEN [used EXCEPT !.status = COOLDOWN]
        ELSE used

\* a mark_account_used that retires a record whose health score reached 0
MarkAccountUsedRetiring(acc, success, t, cfg) ==
    LET used == UpdateHealthScore(MarkUsed(acc, t), success)
    IN  IF used.health_score = 0 THEN [used EXCEPT !.status = DEAD]
        ELSE IF used.operations_today >= cfg.max_daily_operations_per_account
        THEN [used EXCEPT !.status = COOLDOWN]
        ELSE used

\* mark_account_used, on one record
MarkAccountUsed(acc, success, t, cfg) ==
    LET used == UpdateHealthScore(MarkUsed(acc, t), success)
    IN  IF used.operations_today >= cfg.max_daily_operations_per_account
        THEN [used EXCEPT !.status = COOLDOWN]
        ELSE used

\* an outcome recorded twice on the record a run holds
MarkInPoolTwice(accs, u, success, t, cfg) ==
    [i \in 1..Len(accs) |->
        IF accs[i].username = u
        THEN MarkAccountUsed(MarkAccountUsed(accs[i], success, t, cfg),
                             success, t, cfg)
        ELSE accs[i]]

\* mark_account_used(account, success) on the record object a run holds
MarkInPool(accs, u, success, t, cfg) ==
    [i \in 1..Len(accs) |->
        IF accs[i].username = u
        THEN MarkAccountUsed(accs[i], success, t, cfg)
        ELSE accs[i]]

\* what the Gateway answers to a login
LoginOutcomes == {"ok", "challenge", "login_required", "error"}

\* a get_client failure that lowers the score without the failure rule's
\* floor
ClientFailureNoFloor(acc, login) ==
    [acc EXCEPT !.health_score = acc.health_score - 5,
                !.total_errors = acc.total_errors + 1,
                !.status = DEAD]

\* a get_client failure that also counts as a use of the record
ClientFailureCounted(acc, login) ==
    [UpdateHealthScore(acc, FALSE) EXCEPT
        !.operations_today = acc.operations_today + 1,
        !.status = IF login = "challenge" THEN CHALLENGE
                   ELSE IF login = "login_required" THEN LOGIN_REQUIRED
                   ELSE DEAD]

\* a get_client failure that leaves the status of the record alone
ClientFailureKeepsStatus(acc, login) == UpdateHealthScore(acc, FALSE)

\* get_client: the except branch, on one record
ClientFailure(acc, login) ==
    [UpdateHealthScore(acc, FALSE) EXCEPT
        !.status = IF login = "challenge" THEN CHALLENGE
                   ELSE IF login = "login_required" THEN LOGIN_REQUIRED
                   ELSE DEAD]

\* get_client(account): live tells whether a cached client answers
\* get_timeline_feed, login what the Gateway answers to a new login
GetClient(accs, cl, u, live, login) ==
    IF u \in cl /\ live
    THEN [accounts |-> accs, clients |-> cl, client |-> TRUE, saved |-> FALSE]
    ELSE IF login = "ok"
    THEN [accounts |-> accs, clients |-> cl \cup {u}, client |-> TRUE,
          saved |-> FALSE]
    ELSE [accounts |-> [i \in 1..Len(accs) |->
                           IF accs[i].username = u
                           THEN ClientFailure(accs[i], login)
                           ELSE accs[i]],
          clients |-> cl \ {u}, client |-> FALSE, saved |-> TRUE]

\* what the Gateway answers to the probe of _test_account_login: a
\* successful login, ChallengeRequired, any other exception, or a login
\* call that returns a false value
ProbeOutcomes == {"ok", "challenge", "error", "refused"}

\* _test_account_login: the record after the probe
TestAccountLogin(acc, probe) ==
    IF probe = "challenge" THEN [acc EXCEPT !.status = CHALLENGE]
    ELSE IF probe = "error" THEN [acc EXCEPT !.status = DEAD]
    ELSE acc

\* a login test that takes a login call returning a false value for a
\* successful login
LoginTestPassesUnlessRaised(probe) == probe \in {"ok", "refused"}

\* _test_account_login: its return value
LoginTestPasses(probe) == probe = "ok"

\* a health_check without the daily reset
DailyResetNever(acc, t) == acc

\* a daily reset that brings back a record of any status
DailyResetAnyStatus(acc, t) ==
    IF acc.last_used # None /\ DateOf(acc.last_used[1]) < DateOf(t)
    THEN [acc EXCEPT !.operations_today = 0, !.status = ACTIVE]
    ELSE acc

\* a daily reset that ends the cooldown but keeps the count of the day
\* before
DailyResetKeepsCount(acc, t) ==
    IF acc.last_used # None /\ DateOf(acc.last_used[1]) < DateOf(t)
    THEN [acc EXCEPT !.status = IF acc.status = COOLDOWN THEN ACTIVE
                                ELSE acc.status]
    ELSE acc

\* health_check: the daily reset of one record
DailyReset(acc, t) ==
    IF acc.last_used # None /\ DateOf(acc.last_used[1]) < DateOf(t)
    THEN [acc EXCEPT !.operations_today = 0,
                     !.status = IF acc.status = COOLDOWN THEN ACTIVE
                                ELSE acc.status]
    ELSE acc

\* an end of cooldown that does not look at last_used
CooldownExitAlways(acc, t, cfg) ==
    IF acc.status = COOLDOWN THEN [acc EXCEPT !.status = ACTIVE] ELSE acc

\* health_check: the end of the cooldown of one record
CooldownExit(acc, t, cfg) ==
    IF acc.status = COOLDOWN /\ acc.last_used # None
       /\ t - acc.last_used[1] >= cfg.account_cooldown_minutes
    THEN [acc EXCEPT !.status = ACTIVE]
    ELSE acc

\* a recovery that is attempted whatever the health score
ProbedAnyScore(acc) == acc.status \in {CHALLENGE, LOGIN_REQUIRED}

\* health_check: whether the recovery of this record is attempted
Probed(acc) ==
    acc.status \in {CHALLENGE, LOGIN_REQUIRED} /\ acc.health_score > 50

\* a recovery attempt that counts a failed probe as a failed outcome
RecoverPenalised(acc, probe) ==
    IF Probed(acc)
    THEN IF probe = "ok" THEN [acc EXCEPT !.status = ACTIVE]
         ELSE UpdateHealthScore(TestAccountLogin(acc, probe), FALSE)
    ELSE acc

\* health_check: the recovery attempt of one record
Recover(acc, probe) ==
    IF Probed(acc)
    THEN IF probe = "ok" THEN [acc EXCEPT !.status = ACTIVE]
         ELSE TestAccountLogin(acc, probe)
    ELSE acc

\* health_check: the body of the loop, for one record
HealthCheckAccount(acc, t, cfg, probe) ==
    Recover(CooldownExit(DailyReset(acc, t), t, cfg), probe)

---------------------------------------------------------------------------
(* Remote Session Gateway, as collect_user_media sees it *)

\* what a user lookup answers: a user, no user, or an exception
ResolveKinds == {"ok", "none", "not_found", "private", "rate_limited",
                 "error"}

\* the answers of the two lookups of one target resolution: the second
\* lookup is made only when the first raised, and every exception of the
\* first is handled alike
Resolutions ==
    { <<p, "ok">> : p \in {"ok", "none"} }
    \cup { <<"error", f>> : f \in ResolveKinds }

\* what user_stories / user_medias answer: a list, or an exception
FetchKinds == {"ok", "rate_limited", "login_required", "error"}

\* what photo_download / video_download answer for the items of a list:
\* "ok" when every download works, else the exception one of them raises
DownloadKinds == {"ok", "rate_limited", "login_required", "error"}

\* the substrings the collector looks for in str(e) of a Gateway exception
ErrorText(kind) ==
    IF kind = "not_found" THEN {"not found"}
    ELSE IF kind = "login_required" THEN {"login_required"}
    ELSE {}

---------------------------------------------------------------------------
(* MediaCollector *)

\* a collect_user_media call that is not running
IdleRun ==
    [pc |-> "idle",
     account |-> ""]         \* username of the record the run selected

InFlight(run) == run.pc # "idle"

\* _get_user_info_safe: primary is the answer of user_info_by_username,
\* fallback that of user_id_from_username / user_info; the result is "user",
\* "none" (returns None), or the exception it raises
GetUserInfoSafe(primary, fallback) ==
    IF primary \in {"ok", "none"} THEN (IF primary = "ok" THEN "user" ELSE "none")
    ELSE IF fallback \in {"ok", "none"}
         THEN (IF fallback = "ok" THEN "user" ELSE "none")
    ELSE IF "not found" \in ErrorText(fallback) THEN "UserNotFound"
    ELSE "Exception"

\* the answer that decided target resolution
ResolvedBy(primary, fallback) ==
    IF primary \in {"ok", "none"} THEN primary ELSE fallback

\* _collect_stories_safe and _collect_feed_posts_safe, inside their try:
\* "list", "empty", or the exception raised
CollectInner(fetch) ==
    IF fetch = "ok" THEN "list"
    ELSE IF "login_required" \in ErrorText(fetch) THEN "LoginRequired"
    ELSE "empty"

\* a list fetch that hands on a list whatever the Gateway answered
CollectSafeNeverEmpty(fetch) == "list"

\* _collect_stories_safe and _collect_feed_posts_safe: the except Exception
\* around the body turns every exception into an empty list
CollectSafe(fetch) ==
    IF CollectInner(fetch) = "LoginRequired" THEN "empty"
    ELSE CollectInner(fetch)

\* _download_story_file_safe and _download_single_post_safe, inside their
\* try: "file", "skipped", or the exception raised
DownloadFileInner(download) ==
    IF download = "ok" THEN "file"
    ELSE IF "login_required" \in ErrorText(download) THEN "LoginRequired"
    ELSE "skipped"

\* _download_stories_safe and _download_feed_posts_safe: what propagates to
\* collect_user_media, "none" when the helper returns a list.  The item
\* helpers catch every exception and return None, so the login_required
\* test of the loop's handler never sees one.
DownloadSafe(download) ==
    LET item == IF DownloadFileInner(download) = "LoginRequired" THEN "skipped"
                ELSE DownloadFileInner(download)
    IN  IF item \in {"file", "skipped"} THEN "none" ELSE item

\* what the body of one stage (stories or feed) of collect_user_media
\* raises, "none" when it raises nothing
StageRaises(fetch, download) ==
    LET got == CollectSafe(fetch)
    IN  IF got = "list" THEN DownloadSafe(download)
        ELSE IF got = "empty" THEN "none"
        ELSE got

---------------------------------------------------------------------------
(* The state after construction *)

StartTime == 21 * 60
TimeSteps == {60}
MaxTime == StartTime + MaxTicks * 60

\* _load_pool: the pools the file holds when the process starts, records
\* that add_account admitted and that were not used yet
InitPools ==
    { [i \in 1..n |-> NewAccount(Usernames[i])] : n \in 1..Len(Usernames) }

\* what a step did: the action, the record it selected or used and by which
\* return of get_available_account, the success flags it passed to
\* mark_account_used, and, when it ended a collect_user_media call, the
\* CollectionResult and what the Gateway had signalled during the run
Event(op, acct, path, marked) ==
    [op |-> op, acct |-> acct, path |-> path, marked |-> marked,
     returned |-> FALSE, success |-> TRUE, error |-> "", target |-> "",
     rate_seen |-> FALSE, login_seen |-> FALSE, final_status |-> ""]

StatusOf(accs, u) ==
    IF IndexOf(accs, u) = 0 THEN "" ELSE accs[IndexOf(accs, u)].status

\* a CollectionResult that keeps the default success=True whatever the
\* call passes
ReturnedSuccess(e, success, error, accs) ==
    [e EXCEPT !.returned = TRUE, !.success = TRUE, !.error = error,
              !.final_status = StatusOf(accs, e.acct)]

\* a step that ends a collect_user_media call: result.success and the
\* error_message of the CollectionResult
Returned(e, success, error, accs) ==
    [e EXCEPT !.returned = TRUE, !.success = success, !.error = error,
              !.final_status = StatusOf(accs, e.acct)]

Init ==
    /\ settings \in Configs
    /\ accounts \in InitPools
    /\ clients = {}
    /\ pool_file = accounts
    /\ now = StartTime
    /\ runs = [r \in RunIds |-> IdleRun]
    /\ ev = Event("init", "", "", <<>>)

---------------------------------------------------------------------------
(* Operations *)

TotalOperations(accs) ==
    SumOver([i \in 1..Len(accs) |-> accs[i].total_operations], 1..Len(accs))

TotalErrors(accs) ==
    SumOver([i \in 1..Len(accs) |-> accs[i].total_errors], 1..Len(accs))

\* operations recorded so far plus those the runs in flight will record
OpsStarted == TotalOperations(accounts)
              + Cardinality({r \in RunIds : InFlight(runs[r])})

\* collect_user_media up to its first await: input validation,
\* get_available_account and get_client; max_ops bounds the operations of
\* the behaviour
RunStartWithin(r, max_ops) ==
    /\ runs[r].pc = "idle"
    /\ OpsStarted < max_ops
    /\ UNCHANGED <<settings, now>>
    /\ \E valid \in BOOLEAN, live \in BOOLEAN, login \in LoginOutcomes :
        /\ login = "ok" \/ TotalErrors(accounts) < MaxErrors
        \* an invalid username ends the call before any of the rest is read
        /\ valid \/ (live /\ login = "ok")
        /\ IF ~valid
           THEN /\ ev' = Returned(Event("start", "", "skipped", <<>>),
                                  FALSE, "invalid_username", accounts)
                /\ UNCHANGED <<accounts, clients, pool_file, runs>>
           ELSE
             LET i == GetAvailableAccount(accounts, now, settings)
                 path == SelectionPath(accounts, now)
             IN  IF i = 0
                 THEN /\ ev' = Returned(Event("start", "", path, <<>>),
                                        FALSE, "no_account", accounts)
                      /\ UNCHANGED <<accounts, clients, pool_file, runs>>
                 ELSE
                   LET u == accounts[i].username
                       got == GetClient(accounts, clients, u, live, login)
                       e == Event("start", u, path, <<>>)
                   IN  /\ accounts' = got.accounts
                       /\ clients' = got.clients
                       /\ pool_file' = IF got.saved THEN got.accounts
                                       ELSE pool_file
                       /\ IF got.client
                          THEN /\ ev' = e
                               /\ runs' = [runs EXCEPT ![r] =
                                    [IdleRun EXCEPT !.pc = "resolve",
                                                    !.account = u]]
                          ELSE /\ ev' = Returned(e, FALSE, "no_client",
                                                 got.accounts)
                               /\ UNCHANGED runs

RunStart(r) == RunStartWithin(r, MaxOps)

\* collect_user_media: target resolution and its two handlers
Resolve(r) ==
    /\ runs[r].pc = "resolve"
    /\ UNCHANGED <<clients, settings, now>>
    /\ \E resolution \in Resolutions :
        LET primary == resolution[1]
            fallback == resolution[2]
            u == runs[r].account
            info == GetUserInfoSafe(primary, fallback)
            rate == primary \notin {"ok", "none"} /\ fallback = "rate_limited"
        IN  IF info = "user"
            THEN /\ runs' = [runs EXCEPT ![r] =
                               [@ EXCEPT !.pc = "collect"]]
                 /\ ev' = [Event("resolve", u, "", <<>>) EXCEPT
                              !.target = "ok"]
                 /\ UNCHANGED <<accounts, pool_file>>
            ELSE
              LET ok == info \in {"none", "UserNotFound"}
                  accs == MarkInPool(accounts, u, ok, now, settings)
                  e == [Event("resolve", u, "", <<ok>>) EXCEPT
                           !.target = ResolvedBy(primary, fallback),
                           !.rate_seen = rate]
              IN  /\ accounts' = accs
                  /\ pool_file' = accs
                  /\ runs' = [runs EXCEPT ![r] = IdleRun]
                  /\ ev' = Returned(e, FALSE,
                                    IF ok THEN "target_unavailable"
                                    ELSE "resolve_error",
                                    accs)

\* the remote calls one stage makes
StageCalls(include, fetch, download) ==
    IF ~include THEN {}
    ELSE IF fetch = "ok" THEN {fetch, download}
    ELSE {fetch}

\* the inputs of one stage: not requested, a failed fetch, or a fetched
\* list and its downloads
Stages ==
    { <<FALSE, "ok", "ok">> }
    \cup { <<TRUE, f, "ok">> : f \in FetchKinds \ {"ok"} }
    \cup { <<TRUE, "ok", d>> : d \in DownloadKinds }

\* collect_user_media after target resolution: the stories stage and the
\* feed stage, then mark_account_used(success=True) and the result.
\* Whatever the body of a stage raises is caught by the stage's own
\* "except Exception", so nothing reaches the handlers that end the
\* function (PrivateError, RateLimitError, LoginRequired, Exception).
\* Neither stage reads or writes the pool, so the awaits between them are
\* not separate steps.
Collect(r) ==
    /\ runs[r].pc = "collect"
    /\ UNCHANGED <<clients, settings, now>>
    /\ \E stories \in Stages, feed \in Stages :
        LET u == runs[r].account
            calls == StageCalls(stories[1], stories[2], stories[3])
                     \cup StageCalls(feed[1], feed[2], feed[3])
            caught == {StageRaises(stories[2], stories[3]),
                       StageRaises(feed[2], feed[3])}
            accs == MarkInPool(accounts, u, TRUE, now, settings)
            e == [Event("collect", u, "", <<TRUE>>) EXCEPT
                     !.target = "ok",
                     !.rate_seen = "rate_limited" \in calls,
                     !.login_seen = "login_required" \in calls]
        IN  /\ caught \subseteq {"none", "LoginRequired"}
            /\ accounts' = accs
            /\ pool_file' = accs
            /\ runs' = [runs EXCEPT ![r] = IdleRun]
            /\ ev' = Returned(e, TRUE, "", accs)

\* health_check, with the answer of the Gateway to each probe it makes
HealthCheck ==
    /\ \E probes \in [1..Len(accounts) -> ProbeOutcomes] :
        LET accs == [i \in 1..Len(accounts) |->
                       HealthCheckAccount(accounts[i], now, settings,
                                          probes[i])]
            back == \E i \in 1..Len(accounts) :
                       accounts[i].status = COOLDOWN /\ accs[i].status = ACTIVE
        IN  /\ \A i \in 1..Len(accounts) :
                  Probed(DailyReset(accounts[i], now)) \/ probes[i] = "ok"
            /\ accounts' = accs
            /\ pool_file' = accs
            /\ ev' = Event("health_check", "",
                           IF back THEN "reactivated" ELSE "", <<>>)
    /\ UNCHANGED <<clients, settings, now, runs>>

\* time passes
Tick ==
    /\ \E d \in TimeSteps :
        /\ now + d <= MaxTime
        /\ now' = now + d
    /\ ev' = Event("tick", "", "", <<>>)
    /\ UNCHANGED <<accounts, clients, pool_file, settings, runs>>

\* callers that call collect_user_media one at a time (scripts/main.py, a
\* single HTTP client), health_check and the clock
Next ==
    \/ RunStart(1)
    \/ Resolve(1)
    \/ Collect(1)
    \/ HealthCheck
    \/ Tick

Spec == Init /\ [][Next]_vars

\* simultaneous HTTP requests: the coroutines interleave at their awaits
NextConcurrent ==
    \/ \E r \in RunIds : RunStart(r)
    \/ \E r \in RunIds : Resolve(r)
    \/ \E r \in RunIds : Collect(r)
    \/ HealthCheck
    \/ Tick

SpecConcurrent == Init /\ [][NextConcurrent]_vars

---------------------------------------------------------------------------
(* Properties *)

\* the eligibility predicate of the specification, on the configured limits
Eligible(acc, t, cfg) ==
    /\ acc.status = ACTIVE
    /\ acc.operations_today < cfg.max_daily_operations_per_account
    /\ \/ acc.last_used = None
       \/ t - acc.last_used[1] >= cfg.account_cooldown_minutes

\* the record with this username
Record(accs, u) == accs[IndexOf(accs, u)]

\* the step calls get_available_account
Selects == ev'.op = "start" /\ ev'.path # "skipped"

\* the step calls mark_account_used
Marks == ev'.marked # <<>>

\* C1: get_available_account returns None when no record satisfies the
\* eligibility predicate, and never returns a record that is at or above
\* the daily limit or inside its cooldown window.
C1_OnlyEligibleSelected ==
    [][Selects =>
        /\ (\A i \in 1..Len(accounts) : ~Eligible(accounts[i], now, settings))
              => ev'.acct = ""
        /\ ev'.acct # "" =>
              LET acc == Record(accounts, ev'.acct)
              IN  /\ acc.operations_today
                        < settings.max_daily_operations_per_account
                  /\ \/ acc.last_used = None
                     \/ now - acc.last_used[1]
                           >= settings.account_cooldown_minutes]_vars

\* C2: every record get_available_account returns has status ACTIVE, on
\* the normal path and on the fallback path.
C2_SelectedIsActive ==
    [][(Selects /\ ev'.acct # "") =>
          Record(accounts, ev'.acct).status = ACTIVE]_vars

\* the fallback loop returned a record and skipped an earlier record of the
\* list that is not ACTIVE
C2_Witness ==
    /\ ev.op = "start"
    /\ ev.path = "fallback"
    /\ ev.acct # ""
    /\ \E i \in 1..Len(accounts) :
          /\ i < IndexOf(accounts, ev.acct)
          /\ accounts[i].status # ACTIVE

\* C3: no identity is assigned to two collect_user_media runs that overlap.
C3_NoDoubleAssignment ==
    \A r1 \in RunIds, r2 \in RunIds :
        (r1 # r2 /\ InFlight(runs[r1]) /\ InFlight(runs[r2]))
            => runs[r1].account # runs[r2].account

\* a record leaves COOLDOWN for ACTIVE in this step
Reactivated(i) ==
    /\ i <= Len(accounts')
    /\ accounts[i].status = COOLDOWN
    /\ accounts'[i].status = ACTIVE

CooldownElapsed(acc, t, cfg) ==
    /\ acc.last_used # None
    /\ t - acc.last_used[1] >= cfg.account_cooldown_minutes

\* C4: a record changes from COOLDOWN to ACTIVE only when the configured
\* cooldown has elapsed since its last use.
C4_ActiveOnlyAfterCooldown ==
    [][\A i \in 1..Len(accounts) :
          Reactivated(i) => CooldownElapsed(accounts[i], now, settings)]_vars

\* C4, amended: a record changes from COOLDOWN to ACTIVE only when the
\* configured cooldown has elapsed since its last use, or when its last use
\* is on a calendar day before today (the daily reset of health_check).
C4_ActiveAfterCooldownOrNewDay ==
    [][\A i \in 1..Len(accounts) :
          Reactivated(i) =>
              \/ CooldownElapsed(accounts[i], now, settings)
              \/ /\ accounts[i].last_used # None
                 /\ DateOf(accounts[i].last_used[1]) < DateOf(now)]_vars

\* health_check has just moved the only record of the pool from COOLDOWN to
\* ACTIVE on a new day, inside its cooldown window
C4_Witness ==
    /\ ev.op = "health_check"
    /\ ev.path = "reactivated"
    /\ Len(accounts) = 1
    /\ accounts[1].status = ACTIVE
    /\ ~CooldownElapsed(accounts[1], now, settings)

\* C5: a mark_account_used on a record last used on an earlier calendar day
\* leaves operations_today at 1.
C5_FirstUseOfDayCountsOne ==
    [][Marks =>
          LET acc == Record(accounts, ev'.acct)
          IN  (acc.last_used # None
               /\ DateOf(acc.last_used[1]) < DateOf(now))
                  => Record(accounts', ev'.acct).operations_today = 1]_vars

\* C6: a run during which the Gateway signalled a rate limit returns
\* success=false, records a failed outcome and leaves the identity in
\* COOLDOWN.
C6_RateLimitAborts ==
    (ev.returned /\ ev.rate_seen) =>
        /\ ev.success = FALSE
        /\ ev.marked = <<FALSE>>
        /\ StatusOf(accounts, ev.acct) = COOLDOWN

\* C7: a run during which a story fetch, feed fetch or download signalled
\* login required returns success=false, records a failed outcome and
\* leaves the identity in a status other than ACTIVE.
C7_LoginRequiredAborts ==
    (ev.returned /\ ev.login_seen) =>
        /\ ev.success = FALSE
        /\ ev.marked = <<FALSE>>
        /\ StatusOf(accounts, ev.acct) # ACTIVE

\* C8: a run whose target resolution reported not found or private returns
\* success=false as target unavailable and records exactly one successful
\* outcome.
C8_TargetUnavailableIsSuccess ==
    (ev.returned /\ ev.target \in {"not_found", "private"}) =>
        /\ ev.success = FALSE
        /\ ev.error = "target_unavailable"
        /\ ev.marked = <<TRUE>>

\* C9: the availability test get_available_account and get_pool_status
\* apply to a record is the eligibility predicate on the configured daily
\* limit and cooldown.
C9_AvailabilityUsesSettings ==
    \A i \in 1..Len(accounts) :
        IsAvailable(accounts[i], now) <=> Eligible(accounts[i], now, settings)

\* C10: mark_account_used sets last_used to now, adds one to
\* operations_today and total_operations, adds one to total_errors exactly
\* on failure, and sets the status to COOLDOWN exactly when the new
\* operations_today is at or above the configured limit.
C10_MarkAccountUsedEffect ==
    [][Marks =>
          LET old == Record(accounts, ev'.acct)
              new == Record(accounts', ev'.acct)
              success == ev'.marked[1]
          IN  /\ Len(ev'.marked) = 1
              /\ new.last_used = <<now>>
              /\ new.operations_today = old.operations_today + 1
              /\ new.total_operations = old.total_operations + 1
              /\ new.total_errors
                    = old.total_errors + (IF success THEN 0 ELSE 1)
              /\ new.status
                    = IF new.operations_today
                            >= settings.max_daily_operations_per_account
                      THEN COOLDOWN
                      ELSE old.status
              /\ \A i \in 1..Len(accounts) :
                    accounts[i].username # ev'.acct
                        => accounts'[i] = accounts[i]]_vars

\* a failed outcome has just taken a record to its daily limit
C10_Witness ==
    /\ ev.marked = <<FALSE>>
    /\ StatusOf(accounts, ev.acct) = COOLDOWN
    /\ Record(accounts, ev.acct).operations_today
          = settings.max_daily_operations_per_account
    /\ Record(accounts, ev.acct).last_used = <<now>>

---------------------------------------------------------------------------
(* Outcome recording on one record: mark_account_used calls and failing    *)
(* get_client calls in any order, as the runs of a busy pool produce them  *)

\* mark_account_used calls on the record, and failures among all outcomes
MaxOutcomes == 23
MaxFailures == 21

\* the shape of the history of the record: only failed mark_account_used
\* calls so far, failed calls followed by successful ones, or anything else
NextPhase(phase, success) ==
    IF phase = "failures" /\ ~success THEN "failures"
    ELSE IF phase \in {"failures", "successes"} /\ success THEN "successes"
    ELSE "mixed"

InitOutcomes ==
    /\ settings \in Configs
    /\ accounts = <<NewAccount(Usernames[1])>>
    /\ clients = {}
    /\ pool_file = accounts
    /\ now = StartTime
    /\ runs = [r \in RunIds |-> IdleRun]
    /\ ev = Event("init", Usernames[1], "failures", <<>>)

\* mark_account_used(account, success)
RecordOutcome ==
    /\ accounts[1].total_operations < MaxOutcomes
    /\ \E success \in BOOLEAN :
        LET u == accounts[1].username
            accs == MarkInPool(accounts, u, success, now, settings)
        IN  /\ success \/ accounts[1].total_errors < MaxFailures
            /\ accounts' = accs
            /\ pool_file' = accs
            /\ ev' = Event("outcome", u, NextPhase(ev.path, success),
                           <<success>>)
    /\ UNCHANGED <<clients, settings, now, runs>>

\* get_client(account) with no usable cached client and a failing login
AcquireFails ==
    /\ accounts[1].total_errors < MaxFailures
    /\ \E login \in LoginOutcomes \ {"ok"} :
        LET u == accounts[1].username
            got == GetClient(accounts, clients, u, FALSE, login)
        IN  /\ accounts' = got.accounts
            /\ clients' = got.clients
            /\ pool_file' = got.accounts
            /\ ev' = [Event("acquire", u, "mixed", <<>>) EXCEPT
                         !.success = got.client,
                         !.error = login]
    /\ UNCHANGED <<settings, now, runs>>

NextOutcomes ==
    \/ RecordOutcome
    \/ AcquireFails

SpecOutcomes == InitOutcomes /\ [][NextOutcomes]_vars

\* C11: after N consecutive failed mark_account_used calls on a record that
\* started at health score 100, the health score is max(0, 100 - 5N).
C11_FailuresLowerHealthByFive ==
    ev.path = "failures" =>
        accounts[1].health_score = Max(0, 100 - 5 * accounts[1].total_errors)

\* twenty-one failed outcomes in a row: the floor holds the score at 0
C11_Witness ==
    /\ ev.op = "outcome"
    /\ ev.path = "failures"
    /\ accounts[1].total_errors = 21
    /\ accounts[1].health_score = 0

\* C12: after N failed outcomes followed by M successful ones on a record
\* that started at health score 100, the health score is
\* min(100, 100 - 5N + M).
C12_FailuresThenSuccesses ==
    ev.path \in {"failures", "successes"} =>
        LET n == accounts[1].total_errors
            m == accounts[1].total_operations - n
        IN  accounts[1].health_score = Min(100, 100 - 5 * n + m)

\* C12, amended: the failures stop lowering the score at 0, so the score
\* is min(100, max(0, 100 - 5N) + M).
C12_FailuresFloorThenSuccesses ==
    ev.path \in {"failures", "successes"} =>
        LET n == accounts[1].total_errors
            m == accounts[1].total_operations - n
        IN  accounts[1].health_score = Min(100, Max(0, 100 - 5 * n) + m)

\* twenty-one failures took the score to the floor and two successes
\* raised it from there
C12_Witness ==
    /\ ev.op = "outcome"
    /\ ev.path = "successes"
    /\ accounts[1].total_errors = 21
    /\ accounts[1].total_operations = 23
    /\ accounts[1].health_score = 2

\* C13: the health score of every record lies in [0, 100].
C13_HealthScoreInRange ==
    \A i \in 1..Len(accounts) :
        accounts[i].health_score >= 0 /\ accounts[i].health_score <= 100

\* a failed get_client on a record already at 0 left it at 0
C13_Witness ==
    /\ ev.op = "acquire"
    /\ accounts[1].health_score = 0
    /\ accounts[1].total_errors = 21

---------------------------------------------------------------------------
(* Selection on pools of two records that earlier operations left in any   *)
(* of their states                                                         *)

\* health scores of a record: untouched, after one failure, after ten
SelectHealths == {100, 95, 50}
\* minutes since the last use of a used record
SelectAges == {60, 120, 20 * 60, 22 * 60}
\* operations_today of a used record
SelectOps == {0, 1, 2}
\* the instant of the selection
SelectTime == StartTime + MinutesPerDay

\* records of every combination of the fields selection reads: never used,
\* or used some time ago and some times today
SelectRecords(u) ==
    { [NewAccount(u) EXCEPT !.status = st,
                            !.health_score = h,
                            !.total_errors = (100 - h) \div 5]
        : st \in {ACTIVE, DEAD}, h \in SelectHealths }
    \cup
    { [NewAccount(u) EXCEPT !.status = st,
                            !.health_score = h,
                            !.last_used = <<SelectTime - age>>,
                            !.operations_today = ops,
                            !.total_errors = (100 - h) \div 5,
                            !.total_operations = (100 - h) \div 5 + ops + 1]
        : st \in {ACTIVE, COOLDOWN, DEAD}, h \in SelectHealths,
          age \in SelectAges, ops \in SelectOps }

\* the records among them that the pool operations can produce.
\* mark_account_used is the only writer of COOLDOWN and writes it exactly
\* when operations_today has reached the limit; such a record is ACTIVE
\* again with its count kept only by the cooldown exit of health_check, on
\* the day of its last use and after the cooldown; a record is DEAD,
\* CHALLENGE or LOGIN_REQUIRED only after a failed login, which the health score records; the count of a
\* used record is 0 only after the daily reset, on a later day.
ProducedByPool(acc, t, cfg) ==
    LET limit == cfg.max_daily_operations_per_account
        full == acc.operations_today >= limit
    IN  /\ acc.status = COOLDOWN => full
        /\ (acc.status = ACTIVE /\ full) =>
              /\ t - acc.last_used[1] >= cfg.account_cooldown_minutes
              /\ DateOf(acc.last_used[1] + cfg.account_cooldown_minutes)
                    = DateOf(acc.last_used[1])
        /\ (acc.last_used # None /\ acc.operations_today = 0) =>
              DateOf(acc.last_used[1]) < DateOf(t)
        /\ acc.status \in {DEAD, CHALLENGE, LOGIN_REQUIRED} =>
              acc.total_errors > 0

InitSelect ==
    /\ settings \in Configs
    /\ \E a \in SelectRecords(Usernames[1]), b \in SelectRecords(Usernames[2]) :
          /\ ProducedByPool(a, SelectTime, settings)
          /\ ProducedByPool(b, SelectTime, settings)
          /\ accounts = <<a, b>>
    /\ clients = {}
    /\ pool_file = accounts
    /\ now = SelectTime
    /\ runs = [r \in RunIds |-> IdleRun]
    /\ ev = Event("init", "", "", <<>>)

\* get_available_account()
Select ==
    /\ ev.op = "init"
    /\ LET i == GetAvailableAccount(accounts, now, settings)
       IN  ev' = Event("select",
                       IF i = 0 THEN "" ELSE accounts[i].username,
                       SelectionPath(accounts, now), <<>>)
    /\ UNCHANGED <<accounts, clients, pool_file, settings, now, runs>>

NextSelect == Select

SpecSelect == InitSelect /\ [][NextSelect]_vars

\* the records that satisfy the eligibility predicate
EligibleAccounts(accs, t, cfg) ==
    {i \in 1..Len(accs) : Eligible(accs[i], t, cfg)}

\* C14: when some record is eligible, get_available_account returns the
\* eligible record of maximum score, the first in pool order among equals.
C14_BestEligibleSelected ==
    (ev.op = "select" /\ EligibleAccounts(accounts, now, settings) # {}) =>
        /\ ev.acct # ""
        /\ LET elig == EligibleAccounts(accounts, now, settings)
               i == IndexOf(accounts, ev.acct)
               score(k) == CalculateScore(accounts[k], now, settings)
           IN  /\ i \in elig
               /\ \A j \in elig :
                     score(i) > score(j) \/ (score(i) = score(j) /\ i <= j)

\* C14 on the default settings, where is_available and the eligibility
\* predicate accept the same records
C14_BestEligibleSelectedByDefault ==
    settings.max_daily_operations_per_account = DefaultMaxDailyOperations
        => C14_BestEligibleSelected

---------------------------------------------------------------------------
(* health_check, once and a second time at once, on pools of two records   *)

\* health scores around the threshold of the recovery attempt
ReconcileHealths == {95, 55, 50}
\* minutes since the last use: inside the cooldown, at its end, and
\* yesterday after and before the hour of the day it is now
ReconcileAges == {60, 120, 22 * 60, 26 * 60}
\* operations_today: below both daily limits, and at each of them
ReconcileOps == {0, 1, 2, DefaultMaxDailyOperations}

ReconcileRecords(u) ==
    { [NewAccount(u) EXCEPT !.status = st,
                            !.health_score = h,
                            !.total_errors = (100 - h) \div 5]
        : st \in AccountStatus, h \in ReconcileHealths }
    \cup
    { [NewAccount(u) EXCEPT !.status = st,
                            !.health_score = h,
                            !.last_used = <<SelectTime - age>>,
                            !.operations_today = ops,
                            !.total_errors = (100 - h) \div 5,
                            !.total_operations = (100 - h) \div 5 + ops + 1]
        : st \in AccountStatus, h \in ReconcileHealths,
          age \in ReconcileAges, ops \in ReconcileOps }

InitReconcile ==
    /\ settings \in Configs
    /\ \E a \in ReconcileRecords(Usernames[1]),
          b \in ReconcileRecords(Usernames[2]) :
          /\ ProducedByPool(a, SelectTime, settings)
          /\ ProducedByPool(b, SelectTime, settings)
          /\ accounts = <<a, b>>
    /\ clients = {}
    /\ pool_file = accounts
    /\ now = SelectTime
    /\ runs = [r \in RunIds |-> IdleRun]
    /\ ev = Event("init", "", "", <<>>)

\* health_check on the two records, given the answer of the Gateway to the
\* probe of each
HealthCheckWith(p1, p2) ==
    [i \in 1..Len(accounts) |->
        HealthCheckAccount(accounts[i], now, settings,
                           IF i = 1 THEN p1 ELSE p2)]

\* health_check; the step keeps the answers of the Gateway, in path for the
\* first record and in target for the second
Reconcile ==
    /\ ev.op = "init"
    /\ \E p1 \in ProbeOutcomes, p2 \in ProbeOutcomes :
        /\ Probed(CooldownExit(DailyReset(accounts[1], now), now, settings))
              \/ p1 = "ok"
        /\ Probed(CooldownExit(DailyReset(accounts[2], now), now, settings))
              \/ p2 = "ok"
        /\ accounts' = HealthCheckWith(p1, p2)
        /\ pool_file' = accounts'
        /\ ev' = [Event("health_check", "", p1, <<>>) EXCEPT !.target = p2]
    /\ UNCHANGED <<clients, settings, now, runs>>

\* health_check called again at once, the Gateway answering as before
ReconcileAgain ==
    /\ ev.op = "health_check"
    /\ accounts' = HealthCheckWith(ev.path, ev.target)
    /\ pool_file' = accounts'
    /\ ev' = [ev EXCEPT !.op = "health_check_again"]
    /\ UNCHANGED <<clients, settings, now, runs>>

NextReconcile ==
    \/ Reconcile
    \/ ReconcileAgain

SpecReconcile == InitReconcile /\ [][NextReconcile]_vars

\* C15: a second health_check at once, with the same answers to the
\* probes, leaves every field of every record as the first left it.
C15_HealthCheckIdempotent ==
    [][ev'.op = "health_check_again" => accounts' = accounts]_vars

\* the second health_check probed again a record that a first, refused
\* recovery attempt had left in LOGIN_REQUIRED
C15_Witness ==
    /\ ev.op = "health_check_again"
    /\ ev.path = "refused"
    /\ accounts[1].status = LOGIN_REQUIRED
    /\ Probed(accounts[1])

\* the record is at the configured daily limit, ACTIVE or in COOLDOWN, and
\* was last used yesterday, longer ago than the cooldown
AtLimitSinceYesterday(acc, t, cfg) ==
    /\ acc.operations_today = cfg.max_daily_operations_per_account
    /\ acc.status \in {ACTIVE, COOLDOWN}
    /\ acc.last_used # None
    /\ DateOf(acc.last_used[1]) = DateOf(t) - 1
    /\ t - acc.last_used[1] > cfg.account_cooldown_minutes

\* C16: one health_check makes a record that is at the daily limit since
\* yesterday, past its cooldown, eligible: operations_today is 0 and the
\* status is ACTIVE.
C16_DailyResetMakesEligible ==
    [][ev'.op = "health_check" =>
          \A i \in 1..Len(accounts) :
              AtLimitSinceYesterday(accounts[i], now, settings) =>
                  /\ accounts'[i].operations_today = 0
                  /\ accounts'[i].status = ACTIVE
                  /\ Eligible(accounts'[i], now, settings)
                  /\ IsAvailable(accounts'[i], now)]_vars

\* health_check has reset a record that had 100 operations yesterday, the
\* default limit, and it is ACTIVE
C16_Witness ==
    /\ ev.op = "health_check"
    /\ settings.max_daily_operations_per_account = DefaultMaxDailyOperations
    /\ accounts[1].total_operations - accounts[1].total_errors - 1
          = DefaultMaxDailyOperations
    /\ accounts[1].last_used # None
    /\ DateOf(accounts[1].last_used[1]) = DateOf(now) - 1
    /\ accounts[1].operations_today = 0
    /\ accounts[1].status = ACTIVE

---------------------------------------------------------------------------
(* Properties of the runs of collect_user_media *)

\* the step is a step of run r
StepOf(r) == runs'[r] # runs[r]

\* mark_account_used calls the step made, counted on the records
OutcomesRecorded == TotalOperations(accounts') - TotalOperations(accounts)

\* C17: a run that obtained a session records exactly one outcome, on the
\* identity it selected, in the step that ends it and in no other; a run
\* that obtained no session records none; a run keeps its identity.
C17_OneOutcomePerRun ==
    [][/\ \A r \in RunIds :
            /\ (StepOf(r) /\ InFlight(runs'[r])) =>
                  /\ ev'.marked = <<>>
                  /\ OutcomesRecorded = 0
                  /\ InFlight(runs[r]) => runs'[r].account = runs[r].account
            /\ (StepOf(r) /\ ~InFlight(runs'[r])) =>
                  /\ ev'.returned
                  /\ ev'.acct = runs[r].account
                  /\ Len(ev'.marked) = 1
                  /\ OutcomesRecorded = 1
                  /\ Record(accounts', runs[r].account).total_operations
                        = Record(accounts, runs[r].account).total_operations
                          + 1
       /\ (ev'.op = "start" /\ ev'.returned) =>
            /\ ev'.marked = <<>>
            /\ OutcomesRecorded = 0]_vars

\* a run in which a fetch or a download signalled login required has ended
\* with its one outcome recorded
C17_Witness ==
    /\ ev.op = "collect"
    /\ ev.returned
    /\ ev.login_seen
    /\ Len(ev.marked) = 1
    /\ Record(accounts, ev.acct).total_operations = 1

\* the event loop resumes a coroutine whose awaited sleep or executor call
\* has completed
SpecFair == Spec /\ WF_vars(Resolve(1)) /\ WF_vars(Collect(1))

\* C17, termination: a run that obtained a session ends.
C17_RunEnds == InFlight(runs[1]) ~> ~InFlight(runs[1])

---------------------------------------------------------------------------
(* Properties of get_client *)

\* C18: a failed get_client returns None, lowers the health score by the
\* failure rule, sets the status after the error the Gateway reported
\* (CHALLENGE, LOGIN_REQUIRED, else DEAD), saves the pool, and leaves
\* last_used, operations_today and total_operations as they were.
C18_ClientFailureEffect ==
    [][ev'.op = "acquire" =>
          LET old == Record(accounts, ev'.acct)
              new == Record(accounts', ev'.acct)
          IN  /\ ev'.success = FALSE
              /\ new.health_score = Max(0, old.health_score - 5)
              /\ new.total_errors = old.total_errors + 1
              /\ new.status = IF ev'.error = "challenge" THEN CHALLENGE
                              ELSE IF ev'.error = "login_required"
                                   THEN LOGIN_REQUIRED
                              ELSE DEAD
              /\ pool_file' = accounts'
              /\ new.last_used = old.last_used
              /\ new.operations_today = old.operations_today
              /\ new.total_operations = old.total_operations]_vars

\* a login answered by a challenge has failed on a record that had been
\* used
C18_Witness ==
    /\ ev.op = "acquire"
    /\ ev.error = "challenge"
    /\ accounts[1].status = CHALLENGE
    /\ accounts[1].last_used # None
    /\ accounts[1].operations_today > 0
    /\ pool_file = accounts

---------------------------------------------------------------------------
(* Administration of the pool: add_account, remove_account and get_client, *)
(* with a file system that can refuse a write or a delete                  *)

\* what the file system answers to a write or a delete
IoOutcomes == {"ok", "error"}

\* _save_pool: the content of the pool file afterwards; an exception of the
\* write is logged and swallowed
SavePool(accs, file, io) == IF io = "ok" THEN accs ELSE file

\* the list without the record at position i
RemoveAt(accs, i) ==
    [j \in 1..(Len(accs) - 1) |-> IF j < i THEN accs[j] ELSE accs[j + 1]]

UsernameSet == {Usernames[i] : i \in 1..Len(Usernames)}

InitAdmin ==
    /\ settings \in Configs
    /\ accounts = <<>>
    /\ clients = {}
    /\ pool_file = accounts
    /\ now = StartTime
    /\ runs = [r \in RunIds |-> IdleRun]
    /\ ev = Event("init", "", "", <<>>)

\* add_account(username, password): probe is the answer of the Gateway to
\* the login test, io that of the file system to the write of the pool.
\* On a failed test the function returns False, through its else branch or
\* through the handler of the exception that branch raises.
AddAccount ==
    /\ \E u \in UsernameSet, probe \in ProbeOutcomes, io \in IoOutcomes :
        IF u \in UsernamesOf(accounts)
        THEN /\ probe = "ok" /\ io = "ok"
             /\ ev' = [Event("add", u, "exists", <<>>) EXCEPT
                          !.success = FALSE]
             /\ UNCHANGED <<accounts, pool_file>>
        ELSE IF LoginTestPasses(probe)
        THEN /\ accounts' = Append(accounts, NewAccount(u))
             /\ pool_file' = SavePool(accounts', pool_file, io)
             /\ ev' = [Event("add", u, "added", <<>>) EXCEPT
                          !.error = io, !.target = probe]
        ELSE /\ io = "ok"
             /\ ev' = [Event("add", u, "refused", <<>>) EXCEPT
                          !.success = FALSE, !.target = probe]
             /\ UNCHANGED <<accounts, pool_file>>
    /\ UNCHANGED <<clients, settings, now, runs>>

\* remove_account(username): has_session tells whether the session file of
\* the record exists, unlink the answer of the file system to os.remove,
\* io its answer to the write of the pool.  os.remove is called outside any
\* try: its exception leaves the function ("raised") after the client was
\* dropped from the cache and before the record is deleted.
RemoveAccount ==
    /\ \E u \in UsernameSet, has_session \in BOOLEAN,
          unlink \in IoOutcomes, io \in IoOutcomes :
        LET i == IndexOf(accounts, u)
        IN  IF i = 0
            THEN /\ ~has_session /\ unlink = "ok" /\ io = "ok"
                 /\ ev' = [Event("remove", u, "absent", <<>>) EXCEPT
                              !.success = FALSE]
                 /\ UNCHANGED <<accounts, clients, pool_file>>
            ELSE IF has_session /\ unlink = "error"
            THEN /\ io = "ok"
                 /\ clients' = clients \ {u}
                 /\ ev' = [Event("remove", u, "raised", <<>>) EXCEPT
                              !.success = FALSE, !.error = "OSError"]
                 /\ UNCHANGED <<accounts, pool_file>>
            ELSE /\ (has_session \/ unlink = "ok")
                 /\ clients' = clients \ {u}
                 /\ accounts' = RemoveAt(accounts, i)
                 /\ pool_file' = SavePool(accounts', pool_file, io)
                 /\ ev' = [Event("remove", u, "removed", <<>>) EXCEPT
                              !.error = io]
    /\ UNCHANGED <<settings, now, runs>>

\* get_client(account) on a record of the pool
AcquireClient ==
    /\ \E i \in 1..Len(accounts), live \in BOOLEAN, login \in LoginOutcomes :
        LET u == accounts[i].username
            got == GetClient(accounts, clients, u, live, login)
        IN  /\ login = "ok" \/ TotalErrors(accounts) < MaxErrors
            /\ accounts' = got.accounts
            /\ clients' = got.clients
            /\ pool_file' = IF got.saved THEN got.accounts ELSE pool_file
            /\ ev' = [Event("acquire", u, "", <<>>) EXCEPT
                         !.success = got.client]
    /\ UNCHANGED <<settings, now, runs>>

NextAdmin ==
    \/ AddAccount
    \/ RemoveAccount
    \/ AcquireClient

SpecAdmin == InitAdmin /\ [][NextAdmin]_vars

\* C19: add_account, remove_account and get_client raise nothing to their
\* caller, whatever the Gateway and the file system answer, and when they
\* return their failure value the records and the client cache are as
\* they were (a failed get_client changes only the record it reports on).
C19_PoolOperationsTotal ==
    [][/\ ev'.op \in {"add", "remove", "acquire"} => ev'.path # "raised"
       /\ (ev'.op \in {"add", "remove"} /\ ev'.success = FALSE) =>
             /\ accounts' = accounts
             /\ clients' = clients]_vars

---------------------------------------------------------------------------
(* get_pool_status *)

\* get_pool_status: the statistics it returns, without the timestamp and
\* with the sum of the health scores in place of their mean
GetPoolStatus(accs, t) ==
    [total_accounts |-> Len(accs),
     available_accounts |-> Cardinality(AvailableAccounts(accs, t)),
     status_breakdown |->
        [st \in AccountStatus |->
            Cardinality({i \in 1..Len(accs) : accs[i].status = st})],
     health_score_sum |->
        SumOver([i \in 1..Len(accs) |-> accs[i].health_score], 1..Len(accs)),
     total_operations_today |->
        SumOver([i \in 1..Len(accs) |-> accs[i].operations_today],
                1..Len(accs))]

\* C20: available_accounts of get_pool_status is the number of eligible
\* records, and get_available_account returns a record exactly when that
\* count is positive.
C20_StatusAgreesWithSelection ==
    LET status == GetPoolStatus(accounts, now)
    IN  /\ status.available_accounts
              = Cardinality(EligibleAccounts(accounts, now, settings))
        /\ GetAvailableAccount(accounts, now, settings) # 0
              <=> status.available_accounts > 0

---------------------------------------------------------------------------
(* add_account and remove_account *)

\* whether a record of the list carries this username
Present(accs, u) == \E i \in 1..Len(accs) : accs[i].username = u

\* C21: after any sequence of add_account and remove_account calls from an
\* empty pool no two records carry the same username, and add_account with
\* a username that is present returns False and leaves the pool as it was.
C21_UsernamesUnique ==
    [][/\ \A i, j \in 1..Len(accounts') :
              accounts'[i].username = accounts'[j].username => i = j
       /\ (ev'.op = "add" /\ Present(accounts, ev'.acct)) =>
              /\ ev'.success = FALSE
              /\ accounts' = accounts
              /\ pool_file' = pool_file]_vars

\* add_account was called with the username of one of two records
C21_Witness ==
    /\ ev.op = "add"
    /\ ev.path = "exists"
    /\ ev.success = FALSE
    /\ Len(accounts) = 2
    /\ Present(accounts, ev.acct)

\* C22: add_account returns True exactly when the username was absent and
\* the login test succeeded, and when it returns False the record list and
\* the pool file are as they were.
C22_AddAccountResult ==
    [][ev'.op = "add" =>
          /\ ev'.success <=> (~Present(accounts, ev'.acct)
                              /\ ev'.target = "ok")
          /\ ev'.success = FALSE =>
                /\ accounts' = accounts
                /\ pool_file' = pool_file]_vars

\* the login test of a new username was answered by a challenge while the
\* pool held another record
C22_Witness ==
    /\ ev.op = "add"
    /\ ev.path = "refused"
    /\ ev.target = "challenge"
    /\ ev.success = FALSE
    /\ Len(accounts) = 1
    /\ ~Present(accounts, ev.acct)
    /\ pool_file = accounts

\* C23: remove_account returns True exactly when a record with the username
\* exists; then the pool holds no record and the cache no client of that
\* username and the other records and clients are as they were; otherwise
\* nothing changes.
C23_RemoveAccountEffect ==
    [][ev'.op = "remove" =>
          LET u == ev'.acct
          IN  /\ ev'.success <=> Present(accounts, u)
              /\ Present(accounts, u) =>
                    /\ ~Present(accounts', u)
                    /\ u \notin clients'
                    /\ clients' = clients \ {u}
                    /\ accounts' = RemoveAt(accounts, IndexOf(accounts, u))
              /\ ~Present(accounts, u) =>
                    /\ accounts' = accounts
                    /\ clients' = clients]_vars

---------------------------------------------------------------------------
(* The pool file: _save_pool, _load_pool and a restart of the process.    *)
(* Here the records carry all the fields of InstagramAccount and pool_file *)
(* holds the state of the file: missing, unreadable, text that is not      *)
(* JSON, or a JSON list of objects.                                        *)

Passwords == {"secret"}
Proxies == {None, <<"http://proxy:8080">>}

\* os.path.join(settings.session_dir, f"{username}_session.json")
SessionFile(u) == <<"data/sessions", u, "_session.json">>

\* InstagramAccount(username, password, proxy, session_file): created_at is
\* the default of the class, the time at which the module was imported
\* (every process of the model is taken to have imported it at StartTime)
FullAccount(u, password, proxy) ==
    NewAccount(u) @@ [password |-> password,
                      proxy |-> proxy,
                      session_file |-> SessionFile(u),
                      created_at |-> <<StartTime>>]

\* a text for a datetime that keeps only its date
StrDate(d) ==
    IF d = None THEN <<>> ELSE <<d[1] \div MinutesPerDay, 0, 0>>

\* json.dump(..., default=str) on an Optional[datetime]: null, or the text
\* str(d) with its day, hour and minute
StrDatetime(d) ==
    IF d = None THEN <<>>
    ELSE <<d[1] \div MinutesPerDay, (d[1] % MinutesPerDay) \div 60, d[1] % 60>>

\* the datetime pydantic parses from that text
ParseDatetime(x) ==
    IF x = <<>> THEN None
    ELSE <<x[1] * MinutesPerDay + x[2] * 60 + x[3]>>

\* acc.dict() as json.dump writes it
DumpAccount(acc) ==
    [acc EXCEPT !.last_used = StrDatetime(acc.last_used),
                !.created_at = StrDatetime(acc.created_at)]

\* whether InstagramAccount(**obj) validates
ValidObject(obj) == obj.status \in AccountStatus

\* InstagramAccount(**obj)
LoadAccount(obj) ==
    [obj EXCEPT !.last_used = ParseDatetime(obj.last_used),
                !.created_at = ParseDatetime(obj.created_at)]

MissingFile == [kind |-> "missing", doc |-> <<>>]
UnreadableFile == [kind |-> "unreadable", doc |-> <<>>]
TextFile == [kind |-> "text", doc |-> <<>>]
JsonFile(doc) == [kind |-> "json", doc |-> doc]

\* what the file system answers to the write of the pool file: written, or
\* failed after open() truncated the file
WriteOutcomes == {"ok", "partial"}

\* _save_pool: the file afterwards
SavePoolFile(accs, file, io) ==
    IF io = "ok"
    THEN JsonFile([i \in 1..Len(accs) |-> DumpAccount(accs[i])])
    ELSE TextFile

\* what _load_pool meets: "missing", "unreadable", "text", "invalid" (JSON
\* with an object that is not a record) or "valid"
FileState(file) ==
    IF file.kind # "json" THEN file.kind
    ELSE IF \A i \in 1..Len(file.doc) : ValidObject(file.doc[i]) THEN "valid"
    ELSE "invalid"

\* a load that keeps the objects that validate
LoadPoolSkipInvalid(file) ==
    IF file.kind # "json" THEN <<>>
    ELSE SelectSeq([i \in 1..Len(file.doc) |->
                       IF ValidObject(file.doc[i])
                       THEN LoadAccount(file.doc[i]) ELSE file.doc[i]],
                   ValidObject)

\* _load_pool: self.accounts afterwards
LoadPool(file) ==
    IF FileState(file) = "valid"
    THEN [i \in 1..Len(file.doc) |-> LoadAccount(file.doc[i])]
    ELSE <<>>

\* the lists a previous process can have left in the file
StoredPools ==
    { [i \in 1..n |-> FullAccount(Usernames[i], "secret", None)] :
        n \in 0..Len(Usernames) }

\* the pool file when the process starts
StartFiles ==
    {MissingFile, UnreadableFile, TextFile}
    \cup { SavePoolFile(accs, MissingFile, "ok") : accs \in StoredPools }
    \cup { JsonFile([i \in 1..Len(accs) |->
                        IF i = Len(accs)
                        THEN [DumpAccount(accs[i]) EXCEPT !.status = "banned"]
                        ELSE DumpAccount(accs[i])]) :
             accs \in StoredPools \ {<<>>} }

\* the times at which the operations on the stored pool are made: 21:00, or
\* 01:07 of the next day (the clock does not advance in this specification)
StoredTimes == {StartTime, StartTime + 4 * 60 + 7}

\* AccountPool(settings)
InitStored ==
    /\ settings \in {cfg \in Configs :
                       cfg.max_daily_operations_per_account
                          < DefaultMaxDailyOperations}
    /\ pool_file \in StartFiles
    /\ accounts = LoadPool(pool_file)
    /\ clients = {}
    /\ now \in StoredTimes
    /\ runs = [r \in RunIds |-> IdleRun]
    /\ ev = Event("construct", "", FileState(pool_file), <<>>)

\* a new process: AccountPool(settings) on the file the last one left
Restart ==
    /\ accounts' = LoadPool(pool_file)
    /\ clients' = {}
    /\ ev' = Event("restart", "", FileState(pool_file), <<>>)
    /\ UNCHANGED <<pool_file, settings, now, runs>>

\* add_account(username, password, proxy)
AddAccountStored ==
    /\ \E u \in UsernameSet, password \in Passwords, proxy \in Proxies,
          probe \in ProbeOutcomes, io \in WriteOutcomes :
        IF u \in UsernamesOf(accounts) \/ ~LoginTestPasses(probe)
        THEN /\ io = "ok" /\ proxy = None
             /\ u \in UsernamesOf(accounts) => probe = "ok"
             /\ ev' = Event("add", "", "", <<>>)
             /\ UNCHANGED <<accounts, pool_file>>
        ELSE /\ accounts' = Append(accounts,
                                   FullAccount(u, password, proxy))
             /\ pool_file' = SavePoolFile(accounts', pool_file, io)
             /\ ev' = [Event("add", "", "", <<>>) EXCEPT !.error = io]
    /\ UNCHANGED <<clients, settings, now, runs>>

\* remove_account(username), when os.remove raises nothing
RemoveAccountStored ==
    /\ \E u \in UsernameSet, io \in WriteOutcomes :
        LET i == IndexOf(accounts, u)
        IN  IF i = 0
            THEN /\ io = "ok"
                 /\ ev' = Event("remove", "", "", <<>>)
                 /\ UNCHANGED <<accounts, clients, pool_file>>
            ELSE /\ clients' = clients \ {u}
                 /\ accounts' = RemoveAt(accounts, i)
                 /\ pool_file' = SavePoolFile(accounts', pool_file, io)
                 /\ ev' = [Event("remove", "", "", <<>>) EXCEPT !.error = io]
    /\ UNCHANGED <<settings, now, runs>>

\* mark_account_used(account, success) on a record of the pool
MarkStored ==
    /\ TotalOperations(accounts) < MaxOps
    /\ \E i \in 1..Len(accounts), success \in BOOLEAN, io \in WriteOutcomes :
        /\ success \/ TotalErrors(accounts) < MaxErrors
        /\ accounts' = MarkInPool(accounts, accounts[i].username, success,
                                  now, settings)
        /\ pool_file' = SavePoolFile(accounts', pool_file, io)
        /\ ev' = [Event("mark", "", "", <<>>) EXCEPT !.error = io]
    /\ UNCHANGED <<clients, settings, now, runs>>

\* get_client(account) on a record of the pool, when the login fails
AcquireStored ==
    /\ TotalErrors(accounts) < MaxErrors
    /\ \E i \in 1..Len(accounts), login \in LoginOutcomes \ {"ok"},
          io \in WriteOutcomes :
        LET u == accounts[i].username
            got == GetClient(accounts, clients, u, FALSE, login)
        IN  /\ accounts' = got.accounts
            /\ clients' = got.clients
            /\ pool_file' = SavePoolFile(got.accounts, pool_file, io)
            /\ ev' = [Event("acquire", "", "", <<>>) EXCEPT !.error = io]
    /\ UNCHANGED <<settings, now, runs>>

\* health_check()
HealthCheckStored ==
    /\ \E probes \in [1..Len(accounts) -> ProbeOutcomes],
          io \in WriteOutcomes :
        LET accs == [i \in 1..Len(accounts) |->
                       HealthCheckAccount(accounts[i], now, settings,
                                          probes[i])]
        IN  /\ \A i \in 1..Len(accounts) :
                  Probed(DailyReset(accounts[i], now)) \/ probes[i] = "ok"
            /\ accounts' = accs
            /\ pool_file' = SavePoolFile(accs, pool_file, io)
            /\ ev' = [Event("health_check", "", "", <<>>) EXCEPT !.error = io]
    /\ UNCHANGED <<clients, settings, now, runs>>

NextStored ==
    \/ AddAccountStored
    \/ RemoveAccountStored
    \/ MarkStored
    \/ AcquireStored
    \/ HealthCheckStored
    \/ Restart

SpecStored == InitStored /\ [][NextStored]_vars

\* a step whose write of the pool file, if it made one, succeeded
WriteSucceeded == ev'.error # "partial"

\* C24: while the writes of the pool file succeed, every state-changing
\* operation leaves a file from which a restart loads the records the
\* process holds, in the same order and with the same field values.
C24_ReloadYieldsSameRecords ==
    [][(WriteSucceeded /\ LoadPool(pool_file) = accounts) =>
          LoadPool(pool_file') = accounts']_vars

\* a restart has loaded two records, one of them used, no longer ACTIVE and
\* with a proxy
C24_Witness ==
    /\ ev.op = "restart"
    /\ ev.path = "valid"
    /\ Len(accounts) = 2
    /\ LoadPool(pool_file) = accounts
    /\ \E i \in 1..2 : /\ accounts[i].last_used # None
                       /\ accounts[i].status # ACTIVE
                       /\ accounts[i].proxy # None

---------------------------------------------------------------------------
(* The caller boundary: what a failed run hands to the caller *)

\* the username the caller asked for
TargetName == "target"

\* error_message of the CollectionResult of a failed run, as the pieces of
\* its f-string (accents dropped): error is the return that ended the run,
\* acct the username of the selected record, answer the text of the
\* exception of target resolution
ErrorMessage(error, acct, answer) ==
    IF error = "invalid_username" THEN <<"Nome de usuario invalido">>
    ELSE IF error = "no_account" THEN <<"Nenhuma conta disponivel no pool">>
    ELSE IF error = "no_client"
         THEN <<"Nao foi possivel obter cliente para ", acct>>
    ELSE IF error = "target_unavailable"
         THEN <<"Usuario ", TargetName, " nao encontrado ou perfil privado">>
    ELSE <<"Erro ao buscar usuario ", TargetName, ": ", answer>>

\* collect_user_content: the error and error_code of the response for a
\* failed run.  The service answers NO_ACCOUNTS_AVAILABLE itself when no
\* record is ACTIVE, which is when get_available_account returns None; every
\* failed CollectionResult is passed on under one code.
ServiceError(error, acct, answer) ==
    [error |-> ErrorMessage(error, acct, answer),
     error_code |-> IF error = "no_account" THEN "NO_ACCOUNTS_AVAILABLE"
                    ELSE "COLLECTION_FAILED"]

\* the detail of the HTTPException the route raises for a failed response
RouteDetail(response) == response.error

\* the terminal failure kinds of the specification
FailureKind(error, answer) ==
    IF error = "invalid_username" THEN "invalid_input"
    ELSE IF error = "no_account" THEN "no_identity"
    ELSE IF error = "no_client" THEN "session_unavailable"
    ELSE IF error = "target_unavailable" THEN "target_unavailable"
    ELSE IF answer = "private" THEN "target_unavailable"
    ELSE IF answer = "rate_limited" THEN "rate_limited"
    ELSE IF answer = "login_required" THEN "reauthentication_required"
    ELSE "internal_error"

\* the failed returns of collect_user_media on a valid username: the
\* return and the answer of target resolution that led to it
FailedReturns ==
    { <<e, "">> : e \in {"no_account", "no_client"} }
    \cup { <<"target_unavailable", a>> : a \in {"none", "not_found"} }
    \cup { <<"resolve_error", a>> :
             a \in ResolveKinds \ {"ok", "none", "not_found"} }

\* C25: the failure message of a run does not contain the username of the
\* record that was selected for the run.
C25_NoIdentityInFailureMessage ==
    (ev.returned /\ ~ev.success /\ ev.acct # "") =>
        LET detail == RouteDetail(ServiceError(ev.error, ev.acct, ev.target))
        IN  \A i \in 1..Len(detail) : detail[i] # ev.acct

\* C26: the error code of a failed run tells its failure kind: no failed
\* return of another kind reaches the caller under the same code.
C26_ErrorCodeTellsFailureKind ==
    (ev.returned /\ ~ev.success /\ <<ev.error, ev.target>> \in FailedReturns) =>
        \A f \in FailedReturns :
            ServiceError(f[1], "", f[2]).error_code
                = ServiceError(ev.error, ev.acct, ev.target).error_code
            => FailureKind(f[1], f[2]) = FailureKind(ev.error, ev.target)

---------------------------------------------------------------------------
(* _collect_feed_posts_safe: the feed window and the recency filter *)

\* search_limit = min(max_posts * 5, 50)
FeedWindowFactor == 5
FeedWindowCap == 50
\* timedelta(hours=24)
RecentHours == 24

\* the largest max_posts of the model
MaxPosts == 12

\* the lengths of the feeds of the model
FeedLengths == {0, 1, 5, 6, 7, 50, 60}

\* a candidate: its position in the feed of the target and the age in hours
\* of its taken_at when the filter runs, None when it has no taken_at
Media(id, taken_at) == [id |-> id, taken_at |-> taken_at]

\* a feed in the order the Gateway delivers it, newest first: n candidates
\* of which the first r are at most 24 hours old (the last of them exactly
\* 24), followed by one that is 25 hours old or has no capture time
Feed(n, r, next) ==
    [i \in 1..n |->
        IF i < r THEN Media(i, <<1>>)
        ELSE IF i = r THEN Media(i, <<RecentHours>>)
        ELSE IF i = r + 1 THEN Media(i, next)
        ELSE Media(i, <<RecentHours + 2>>)]

Feeds ==
    UNION { { Feed(n, r, next) :
                r \in 0..n, next \in {<<RecentHours + 1>>, None} } :
            n \in FeedLengths }

\* client.user_medias(user_id, amount): the first amount candidates; an
\* amount of 0 asks the library for the whole feed
UserMedias(feed, amount) ==
    IF amount = 0 THEN feed
    ELSE SubSeq(feed, 1, Min(amount, Len(feed)))

\* media.taken_at and media.taken_at >= twenty_four_hours_ago
IsRecent(media) ==
    media.taken_at # None /\ media.taken_at[1] <= RecentHours

\* the loop over all_medias from position i, with the posts kept so far
RECURSIVE FilterRecent(_, _, _, _)
FilterRecent(all_medias, i, recent_posts, max_posts) ==
    IF i > Len(all_medias) THEN recent_posts
    ELSE IF IsRecent(all_medias[i])
         THEN LET kept == Append(recent_posts, all_medias[i])
              IN  IF Len(kept) >= max_posts THEN kept
                  ELSE FilterRecent(all_medias, i + 1, kept, max_posts)
    ELSE recent_posts

\* _collect_feed_posts_safe(client, user_id, max_posts): the amount it
\* asks for and the posts it returns; fetch is what user_medias answers
CollectFeedPostsSafe(feed, max_posts, fetch) ==
    LET search_limit == Min(max_posts * FeedWindowFactor, FeedWindowCap)
        all_medias == IF fetch = "ok" THEN UserMedias(feed, search_limit)
                      ELSE <<>>
    IN  [requested |-> search_limit,
         delivered |-> all_medias,
         posts |-> IF all_medias = <<>> THEN <<>>
                   ELSE FilterRecent(all_medias, 1, <<>>, max_posts)]

\* a step of this specification: the call, its inputs and what it returned
FeedEvent(op, max_posts, feed, got) ==
    [max_posts |-> max_posts, feed |-> feed, requested |-> got.requested,
     delivered |-> got.delivered, posts |-> got.posts]
    @@ Event(op, "", "", <<>>)

\* a run that obtained its client and resolved its target, before the feed
\* stage: max_feed_posts of the caller and the feed of the target
InitFeed ==
    /\ settings \in Configs
    /\ accounts = <<NewAccount(Usernames[1])>>
    /\ clients = {Usernames[1]}
    /\ pool_file = accounts
    /\ now = StartTime
    /\ runs = [r \in RunIds |->
                 IF r = 1 THEN [pc |-> "collect", account |-> Usernames[1]]
                 ELSE IdleRun]
    /\ \E max_posts \in 0..MaxPosts, feed \in Feeds :
          ev = FeedEvent("resolve", max_posts, feed,
                         [requested |-> 0, delivered |-> <<>>,
                          posts |-> <<>>])

\* the feed stage calls _collect_feed_posts_safe
CollectFeed ==
    /\ ev.op = "resolve"
    /\ \E fetch \in {"ok", "error"} :
          ev' = FeedEvent("feed", ev.max_posts, ev.feed,
                          CollectFeedPostsSafe(ev.feed, ev.max_posts, fetch))
    /\ UNCHANGED <<accounts, clients, pool_file, settings, now, runs>>

NextFeed == CollectFeed

SpecFeed == InitFeed /\ [][NextFeed]_vars

\* the number of leading candidates that are recent
LeadingRecent(medias) ==
    Cardinality({n \in 1..Len(medias) :
                    \A i \in 1..n : IsRecent(medias[i])})

\* C28: for every max >= 0 the call asks for at most min(max * 5, 50)
\* candidates and returns the first k of them in order, k the smaller of
\* max and the number of leading candidates at most 24 hours old; it never
\* returns more than max posts.
C28_FeedSelection ==
    ev.op = "feed" =>
        LET k == Min(ev.max_posts, LeadingRecent(ev.delivered))
        IN  /\ ev.requested
                 <= Min(ev.max_posts * FeedWindowFactor, FeedWindowCap)
            /\ ev.posts = SubSeq(ev.delivered, 1, k)
            /\ Len(ev.posts) <= ev.max_posts

\* the same for max >= 1
C28_FeedSelectionForPositiveMax ==
    (ev.op = "feed" /\ ev.max_posts >= 1) =>
        LET k == Min(ev.max_posts, LeadingRecent(ev.delivered))
        IN  /\ ev.requested
                 = Min(ev.max_posts * FeedWindowFactor, FeedWindowCap)
            /\ Len(ev.delivered) <= ev.requested
            /\ ev.posts = SubSeq(ev.delivered, 1, k)
            /\ Len(ev.posts) <= ev.max_posts

\* the scenario of the specification: 50 candidates of which the seventh is
\* 25 hours old, and items 1 to 6 returned
C28_ScenarioReached ==
    /\ ev.op = "feed"
    /\ Len(ev.delivered) = FeedWindowCap
    /\ ev.delivered[7].taken_at = <<RecentHours + 1>>
    /\ ev.max_posts >= 6
    /\ [i \in 1..Len(ev.posts) |-> ev.posts[i].id] = <<1, 2, 3, 4, 5, 6>>

---------------------------------------------------------------------------
(* health_check: the recovery attempt *)

\* the answer of the Gateway to the probe of record i in the last
\* health_check step
ProbeOf(e, i) == IF i = 1 THEN e.path ELSE e.target

\* C29: health_check promotes a record in CHALLENGE or LOGIN_REQUIRED to
\* ACTIVE exactly when its health score is above 50 and the probe succeeds;
\* with a score of 50 or less the record keeps its status, and a record
\* whose probe fails is not promoted.
C29_RecoveryNeedsScoreAndProbe ==
    [][ev'.op = "health_check" =>
          \A i \in 1..Len(accounts) :
              accounts[i].status \in {CHALLENGE, LOGIN_REQUIRED} =>
                  /\ accounts'[i].status = ACTIVE
                        <=> (accounts[i].health_score > 50
                             /\ ProbeOf(ev', i) = "ok")
                  /\ accounts[i].health_score <= 50 =>
                        accounts'[i].status = accounts[i].status
                  /\ ProbeOf(ev', i) # "ok" =>
                        accounts'[i].status # ACTIVE]_vars

\* a health_check probed the first record, which answered with a challenge
\* and stays in CHALLENGE, and left the second, whose score is 50, in
\* LOGIN_REQUIRED
C29_Witness ==
    /\ ev.op = "health_check"
    /\ ev.path = "challenge"
    /\ accounts[1].status = CHALLENGE
    /\ accounts[1].health_score > 50
    /\ accounts[2].status = LOGIN_REQUIRED
    /\ accounts[2].health_score = 50

---------------------------------------------------------------------------
(* collect_user_media: what a run reports for its two lists *)

\* result.stories / result.feed_posts after one stage: "empty" when the
\* stage was not requested or its fetch handed on no list, else the files
\* of the downloads that worked
StageList(include, fetch, download) ==
    IF include /\ CollectSafe(fetch) = "list"
    THEN (IF DownloadSafe(download) = "none" /\ download = "ok"
          THEN "files" ELSE "some_skipped")
    ELSE "empty"

\* collect_user_media after target resolution, as Collect, the step keeping
\* in path what each stage was asked, what the Gateway answered and what
\* the result lists
CollectReported(r) ==
    /\ runs[r].pc = "collect"
    /\ UNCHANGED <<clients, settings, now>>
    /\ \E stories \in Stages, feed \in Stages :
        LET u == runs[r].account
            caught == {StageRaises(stories[2], stories[3]),
                       StageRaises(feed[2], feed[3])}
            accs == MarkInPool(accounts, u, TRUE, now, settings)
            e == [Event("collect", u, "", <<TRUE>>) EXCEPT
                     !.target = "ok",
                     !.path = [stories |-> stories,
                               feed |-> feed,
                               story_files |->
                                   StageList(stories[1], stories[2],
                                             stories[3]),
                               feed_files |->
                                   StageList(feed[1], feed[2], feed[3])]]
        IN  /\ caught \subseteq {"none", "LoginRequired"}
            /\ accounts' = accs
            /\ pool_file' = accs
            /\ runs' = [runs EXCEPT ![r] = IdleRun]
            /\ ev' = Returned(e, TRUE, "", accs)

NextReported ==
    \/ RunStart(1)
    \/ Resolve(1)
    \/ CollectReported(1)

SpecReported == Init /\ [][NextReported]_vars

\* a requested stage whose list fetch failed
FetchFailed(stage) == stage[1] /\ stage[2] # "ok"

\* C30: a failure of the story-list fetch or of the feed-list fetch does
\* not abort the run: the run returns success, reports that list as empty
\* and records a successful outcome on the record it used.
C30_FetchFailureDoesNotAbort ==
    [][ev'.op = "collect" =>
          LET rep == ev'.path
              old == Record(accounts, ev'.acct)
              new == Record(accounts', ev'.acct)
          IN  /\ FetchFailed(rep.stories) =>
                    /\ rep.story_files = "empty"
                    /\ ev'.returned /\ ev'.success
                    /\ ev'.marked = <<TRUE>>
                    /\ new.total_operations = old.total_operations + 1
                    /\ new.total_errors = old.total_errors
              /\ FetchFailed(rep.feed) =>
                    /\ rep.feed_files = "empty"
                    /\ ev'.returned /\ ev'.success
                    /\ ev'.marked = <<TRUE>>
                    /\ new.total_operations = old.total_operations + 1
                    /\ new.total_errors = old.total_errors]_vars

\* a run whose story fetch was rate limited and whose feed fetch was
\* answered login_required has returned
C30_Witness ==
    /\ ev.op = "collect"
    /\ ev.path.stories[2] = "rate_limited"
    /\ ev.path.feed[2] = "login_required"
    /\ ev.path.story_files = "empty"
    /\ ev.path.feed_files = "empty"
    /\ ev.returned
    /\ ev.success
    /\ ev.marked = <<TRUE>>

---------------------------------------------------------------------------
(* _download_stories_safe, _download_feed_posts_safe and                   *)
(* _download_carousel_post_safe: the items of a list, one by one           *)

\* media_type of the Gateway: photo, video, and the album of a carousel
PhotoType == 1
VideoType == 2
CarouselType == 8
\* stands for every media_type the helpers do not download
OtherType == 3

\* what happens to one photo_download / video_download call and to the file
\* it names: the file is read, the call raises, the call raises with
\* login_required in its text, the call names no file that exists, the
\* file cannot be read
ItemOutcomes == {"ok", "error", "login_required", "no_file", "unreadable"}

\* a story, a post or a resource of a carousel
Item(pk, media_type, outcome, resources) ==
    [pk |-> pk, media_type |-> media_type, outcome |-> outcome,
     resources |-> resources]

\* the id of a MediaFile: post.pk, or f"{post.pk}_{i+1}" for the i-th
\* resource of a carousel
FileId(pk, index) == <<pk, index>>

\* _download_story_sync, _download_post_sync, _download_carousel_item_sync:
\* whether a temp file came back, the error text, and whether the Gateway
\* was called
DownloadSync(item) ==
    IF item.media_type \notin {PhotoType, VideoType}
    THEN [temp_file |-> FALSE, error |-> "unsupported", called |-> FALSE]
    ELSE IF item.outcome \in {"error", "login_required"}
    THEN [temp_file |-> FALSE, error |-> item.outcome, called |-> TRUE]
    ELSE IF item.outcome = "no_file"
    THEN [temp_file |-> FALSE, error |-> "not_downloaded", called |-> TRUE]
    ELSE [temp_file |-> TRUE, error |-> "", called |-> TRUE]

\* the try body of _download_story_file_safe / _download_single_post_safe:
\* "file", "none", or the exception it raises
DownloadItemBody(item) ==
    LET got == DownloadSync(item)
    IN  IF got.error # ""
        THEN (IF "login_required" \in ErrorText(got.error)
              THEN "LoginRequired" ELSE "none")
        ELSE IF ~got.temp_file THEN "none"
        ELSE IF item.outcome = "unreadable" THEN "none"
        ELSE "file"

\* an item helper that lets LoginRequired out
DownloadItemUnsafe(item) == DownloadItemBody(item)

\* _download_story_file_safe / _download_single_post_safe: the except
\* Exception around the body returns None
DownloadItemSafe(item) ==
    IF DownloadItemBody(item) = "LoginRequired" THEN "none"
    ELSE DownloadItemBody(item)

\* what a download loop hands back: whether it raised, the ids of its
\* MediaFiles in order, and the Gateway calls it made
Downloaded(raised, files, calls) ==
    [raised |-> raised, files |-> files, calls |-> calls]

\* the loop over the resources of _download_carousel_post_safe from
\* position i
RECURSIVE CarouselLoop(_, _, _, _)
CarouselLoop(post, i, media_files, calls) ==
    IF i > Len(post.resources) THEN Downloaded(FALSE, media_files, calls)
    ELSE
      LET resource == post.resources[i]
          got == DownloadSync(resource)
          made == IF got.called THEN calls \cup {FileId(post.pk, i)}
                  ELSE calls
      IN  IF got.error # "" \/ ~got.temp_file
          THEN CarouselLoop(post, i + 1, media_files, made)
          ELSE IF resource.outcome = "unreadable"
          THEN CarouselLoop(post, i + 1, media_files, made)
          ELSE CarouselLoop(post, i + 1,
                            Append(media_files, FileId(post.pk, i)), made)

\* _download_carousel_post_safe
DownloadCarouselPostSafe(post) == CarouselLoop(post, 1, <<>>, {})

\* the loop of _download_stories_safe (carousels FALSE) and of
\* _download_feed_posts_safe (carousels TRUE) from position i
RECURSIVE DownloadLoop(_, _, _, _, _)
DownloadLoop(items, carousels, i, media_files, calls) ==
    IF i > Len(items) THEN Downloaded(FALSE, media_files, calls)
    ELSE
      LET item == items[i]
      IN  IF carousels /\ item.media_type = CarouselType
          THEN LET got == DownloadCarouselPostSafe(item)
               IN  DownloadLoop(items, carousels, i + 1,
                                media_files \o got.files,
                                calls \cup got.calls)
          ELSE
            LET got == DownloadItemSafe(item)
                made == IF DownloadSync(item).called
                        THEN calls \cup {FileId(item.pk, 0)} ELSE calls
            IN  IF got = "LoginRequired"
                THEN Downloaded(TRUE, media_files, made)
                ELSE IF got = "file"
                THEN DownloadLoop(items, carousels, i + 1,
                                  Append(media_files, FileId(item.pk, 0)),
                                  made)
                ELSE DownloadLoop(items, carousels, i + 1, media_files,
                                  made)

DownloadStoriesSafe(stories) == DownloadLoop(stories, FALSE, 1, <<>>, {})

DownloadFeedPostsSafe(posts) == DownloadLoop(posts, TRUE, 1, <<>>, {})

\* one stage of collect_user_media on the list its fetch returned: the
\* list assigned to the result and the Gateway calls made; an exception of
\* the download loop is caught by the stage and leaves the result's list
\* as it was
StageDownload(items, got) ==
    IF items = <<>> THEN Downloaded(FALSE, <<>>, {})
    ELSE IF got.raised THEN Downloaded(TRUE, <<>>, got.calls)
    ELSE got

\* the stories of the model: a photo that downloads, one answered
\* login_required, a video whose download raises, a story of another type
StoryKinds ==
    { <<PhotoType, "ok">>, <<PhotoType, "login_required">>,
      <<VideoType, "error">>, <<OtherType, "ok">> }

\* the resources of the carousels of the model
ResourceKinds ==
    { <<PhotoType, "ok">>, <<PhotoType, "login_required">>,
      <<VideoType, "unreadable">>, <<OtherType, "ok">> }

\* the posts of the model: photos and videos with every outcome, a post of
\* another type, carousels of no and of two resources, the second of which
\* downloads or cannot be read
PostKinds ==
    { <<PhotoType, o, <<>>, <<>>>> : o \in ItemOutcomes \ {"error"} }
    \cup { <<VideoType, "error", <<>>, <<>>>>,
           <<OtherType, "ok", <<>>, <<>>>>,
           <<CarouselType, "ok", <<>>, <<>>>> }
    \cup { <<CarouselType, "ok", a, b>> :
               a \in ResourceKinds,
               b \in {<<PhotoType, "ok">>, <<VideoType, "unreadable">>} }

\* the longest list of the model
MaxItems == 2

\* lists of stories: the pk of an item is its position
StoryLists ==
    UNION { { [i \in 1..n |-> Item(i, k[i][1], k[i][2], <<>>)] :
                k \in [1..n -> StoryKinds] } : n \in 0..MaxItems }

ResourcesOf(kind) ==
    IF kind[3] = <<>> THEN <<>>
    ELSE <<Item(1, kind[3][1], kind[3][2], <<>>),
           Item(2, kind[4][1], kind[4][2], <<>>)>>

PostLists ==
    UNION { { [i \in 1..n |->
                 Item(i, k[i][1], k[i][2], ResourcesOf(k[i]))] :
                k \in [1..n -> PostKinds] } : n \in 0..MaxItems }

\* a step of this specification: the lists the two fetches returned, the
\* lists of the result and the Gateway download calls of each stage
DownloadEvent(e, stories, posts, story_got, feed_got) ==
    [stories |-> stories, posts |-> posts,
     story_files |-> story_got.files, feed_files |-> feed_got.files,
     story_calls |-> story_got.calls, feed_calls |-> feed_got.calls]
    @@ e

\* a run that obtained its client and resolved its target; the lists are
\* those user_stories and the recency filter will hand to the downloads
InitDownload ==
    /\ settings \in {cfg \in Configs :
                       cfg.max_daily_operations_per_account
                          < DefaultMaxDailyOperations}
    /\ accounts = <<NewAccount(Usernames[1])>>
    /\ clients = {Usernames[1]}
    /\ pool_file = accounts
    /\ now = StartTime
    /\ runs = [r \in RunIds |->
                 IF r = 1 THEN [pc |-> "collect", account |-> Usernames[1]]
                 ELSE IdleRun]
    /\ \E stories \in StoryLists, posts \in PostLists :
          ev = DownloadEvent(Event("resolve", Usernames[1], "", <<>>),
                             stories, posts,
                             Downloaded(FALSE, <<>>, {}),
                             Downloaded(FALSE, <<>>, {}))

\* collect_user_media after target resolution with both stages requested:
\* the downloads of each list, mark_account_used(success=True), the result
CollectDownloads(r) ==
    /\ runs[r].pc = "collect"
    /\ ev.op = "resolve"
    /\ UNCHANGED <<clients, settings, now>>
    /\ LET u == runs[r].account
           story_got == StageDownload(ev.stories,
                                      DownloadStoriesSafe(ev.stories))
           feed_got == StageDownload(ev.posts,
                                     DownloadFeedPostsSafe(ev.posts))
           accs == MarkInPool(accounts, u, TRUE, now, settings)
           e == [Event("collect", u, "", <<TRUE>>) EXCEPT !.target = "ok"]
       IN  /\ accounts' = accs
           /\ pool_file' = accs
           /\ runs' = [runs EXCEPT ![r] = IdleRun]
           /\ ev' = DownloadEvent(Returned(e, TRUE, "", accs),
                                  ev.stories, ev.posts, story_got, feed_got)

NextDownload == CollectDownloads(1)

SpecDownload == InitDownload /\ [][NextDownload]_vars

\* the downloads of a list that can work, as file ids: an item of a
\* downloadable type, or a resource of a carousel post
Downloadable(items, carousels) ==
    { FileId(items[i].pk, 0) :
        i \in {j \in 1..Len(items) :
                 items[j].media_type \in {PhotoType, VideoType}} }
    \cup
    UNION { { FileId(items[i].pk, c) :
                c \in {d \in 1..Len(items[i].resources) :
                         items[i].resources[d].media_type
                            \in {PhotoType, VideoType}} } :
            i \in {j \in 1..Len(items) :
                     carousels /\ items[j].media_type = CarouselType} }

\* the item or resource a file id names
ItemOf(items, id) ==
    LET post == CHOOSE p \in {items[i] : i \in 1..Len(items)} : p.pk = id[1]
    IN  IF id[2] = 0 THEN post ELSE post.resources[id[2]]

\* the downloads of a list that worked
Succeeded(items, carousels) ==
    { id \in Downloadable(items, carousels) :
        ItemOf(items, id).outcome = "ok" }

\* files lists ids in the order of the list and of the resources, each once
InListOrder(files) ==
    \A a, b \in 1..Len(files) :
        a < b => \/ files[a][1] < files[b][1]
                 \/ files[a][1] = files[b][1] /\ files[a][2] < files[b][2]

\* C31: whichever downloads of the selected stories, posts and carousel
\* resources fail, the run returns success, each list of the result holds
\* exactly the items whose download worked, in their original order, and
\* every download was attempted, the siblings of a failed resource included.
C31_ItemFailureIsSkipped ==
    ev.op = "collect" =>
        /\ ev.returned /\ ev.success
        /\ ev.marked = <<TRUE>>
        /\ {ev.story_files[i] : i \in 1..Len(ev.story_files)}
              = Succeeded(ev.stories, FALSE)
        /\ {ev.feed_files[i] : i \in 1..Len(ev.feed_files)}
              = Succeeded(ev.posts, TRUE)
        /\ InListOrder(ev.story_files)
        /\ InListOrder(ev.feed_files)
        /\ ev.story_calls = Downloadable(ev.stories, FALSE)
        /\ ev.feed_calls = Downloadable(ev.posts, TRUE)

\* a run returned the second story after the first was answered
\* login_required, and the second resource of a carousel whose first
\* resource failed, followed by a photo
C31_Witness ==
    /\ ev.op = "collect"
    /\ ev.success
    /\ Len(ev.stories) = 2
    /\ ev.stories[1].outcome = "login_required"
    /\ ev.story_files = <<FileId(2, 0)>>
    /\ Len(ev.posts) = 2
    /\ ev.posts[1].media_type = CarouselType
    /\ Len(ev.posts[1].resources) = 2
    /\ ev.posts[1].resources[1].outcome = "login_required"
    /\ ev.feed_files = <<FileId(1, 2), FileId(2, 0)>>

---------------------------------------------------------------------------
(* collect_user_media: the returns before the client is obtained *)

\* the step is a collect_user_media call that ended because get_client
\* returned None
NoClientReturn == ev'.op = "start" /\ ev'.returned /\ ev'.error = "no_client"

\* C32: when get_client returns None for the selected record, the run
\* returns a failed result without calling mark_account_used: the record
\* is in CHALLENGE, LOGIN_REQUIRED or DEAD, and its operations_today,
\* last_used and total_operations are those it had before the run.
C32_NoClientLeavesUsageAlone ==
    [][NoClientReturn =>
          LET old == Record(accounts, ev'.acct)
              new == Record(accounts', ev'.acct)
          IN  /\ ~ev'.success
              /\ ev'.marked = <<>>
              /\ new.status \in {CHALLENGE, LOGIN_REQUIRED, DEAD}
              /\ new.operations_today = old.operations_today
              /\ new.last_used = old.last_used
              /\ new.total_operations = old.total_operations]_vars

\* a run on a record that was used before ended without a client, the
\* login answered by a challenge
C32_Witness ==
    /\ ev.op = "start"
    /\ ev.returned
    /\ ev.error = "no_client"
    /\ ev.final_status = CHALLENGE
    /\ Record(accounts, ev.acct).total_operations = 1
    /\ Record(accounts, ev.acct).last_used # None

\* the step is a collect_user_media call that ended at input validation
InvalidReturn ==
    ev'.op = "start" /\ ev'.returned /\ ev'.error = "invalid_username"

\* the step is a collect_user_media call that ended because
\* get_available_account returned None
NoAccountReturn ==
    ev'.op = "start" /\ ev'.returned /\ ev'.error = "no_account"

\* C33: a run that ends at input validation, or because
\* get_available_account returned None, returns success=false and leaves
\* every record, the client cache and the pool file unchanged; the run
\* that ends at validation does not query the pool.
C33_EarlyReturnsChangeNothing ==
    [][(InvalidReturn \/ NoAccountReturn) =>
          /\ ~ev'.success
          /\ ev'.marked = <<>>
          /\ ev'.acct = ""
          /\ accounts' = accounts
          /\ clients' = clients
          /\ pool_file' = pool_file
          /\ InvalidReturn => ev'.path = "skipped"
          /\ NoAccountReturn => ev'.path = "none"]_vars

\* a run found no record to select in a pool whose only record was
\* retired by a failed login
C33_Witness ==
    /\ ev.op = "start"
    /\ ev.returned
    /\ ev.error = "no_account"
    /\ ~ev.success
    /\ Len(accounts) = 1
    /\ accounts[1].status = DEAD
    /\ accounts[1].total_errors = 1
    /\ pool_file = accounts

---------------------------------------------------------------------------
(* get_client: the cache of clients, each client known by the order in     *)
(* which Client() built it                                                 *)

\* get_client calls of one behaviour
MaxClientCalls == 4

\* self.clients.get(username): None, or the cached client
Cached(cache, u) == IF u \in DOMAIN cache THEN <<cache[u]>> ELSE None

\* del self.clients[username]
Dropped(cache, u) == [x \in DOMAIN cache \ {u} |-> cache[x]]

\* self.clients[username] = client
Stored(cache, u, client) ==
    [x \in DOMAIN cache \cup {u} |-> IF x = u THEN client ELSE cache[x]]

\* a get_client that leaves a client that failed the probe in the cache
\* when the new login fails
GetClientKeepStale(cache, acc, live, login, fresh) ==
    IF Cached(cache, acc.username) # None /\ live
    THEN [clients |-> cache, client |-> Cached(cache, acc.username),
          account |-> acc, saved |-> FALSE]
    ELSE IF login = "ok"
    THEN [clients |-> Stored(cache, acc.username, fresh),
          client |-> <<fresh>>, account |-> acc, saved |-> FALSE]
    ELSE [clients |-> cache, client |-> None,
          account |-> ClientFailure(acc, login), saved |-> TRUE]

\* get_client(account): live is the answer of the cached client to
\* get_timeline_feed, login that of the Gateway to the login of the client
\* Client() builds, fresh that client
GetClientCached(cache, acc, live, login, fresh) ==
    LET u == acc.username
        probed == IF Cached(cache, u) # None /\ ~live THEN Dropped(cache, u)
                  ELSE cache
    IN  IF Cached(cache, u) # None /\ live
        THEN [clients |-> cache, client |-> Cached(cache, u),
              account |-> acc, saved |-> FALSE]
        ELSE IF login = "ok"
        THEN [clients |-> Stored(probed, u, fresh), client |-> <<fresh>>,
              account |-> acc, saved |-> FALSE]
        ELSE [clients |-> probed, client |-> None,
              account |-> ClientFailure(acc, login), saved |-> TRUE]

\* a step of this specification: the answers the call was given, the
\* client it returned and the number of get_client calls made so far
ClientEvent(e, live, login, client, calls) ==
    [live |-> live, login |-> login, client |-> client, calls |-> calls]
    @@ e

\* AccountPool(settings) on a pool file of records not used yet
InitClients ==
    /\ settings \in {cfg \in Configs :
                       cfg.max_daily_operations_per_account
                          < DefaultMaxDailyOperations}
    /\ accounts \in InitPools
    /\ clients = [x \in {} |-> 0]
    /\ pool_file = accounts
    /\ now = StartTime
    /\ runs = [r \in RunIds |-> IdleRun]
    /\ ev = ClientEvent(Event("init", "", "", <<>>), FALSE, "ok", None, 0)

\* get_client(account) on a record of the pool, as collect_user_media and
\* the scripts call it
GetClientCall ==
    /\ ev.calls < MaxClientCalls
    /\ \E i \in 1..Len(accounts), live \in BOOLEAN, login \in LoginOutcomes :
        LET u == accounts[i].username
            got == GetClientCached(clients, accounts[i], live, login,
                                   ev.calls + 1)
        IN  \* the probe has an answer only when a client is cached
            /\ Cached(clients, u) # None \/ ~live
            /\ accounts' = [accounts EXCEPT ![i] = got.account]
            /\ clients' = got.clients
            /\ pool_file' = IF got.saved THEN accounts' ELSE pool_file
            /\ ev' = ClientEvent(
                        [Event("get_client", u, "", <<>>) EXCEPT
                            !.success = got.client # None],
                        live, login, got.client, ev.calls + 1)
    /\ UNCHANGED <<settings, now, runs>>

NextClients == GetClientCall

SpecClients == InitClients /\ [][NextClients]_vars

\* the clients the cache holds
ClientsIn(cache) == {cache[x] : x \in DOMAIN cache}

\* C34: get_client returns the client cached for a username only if that
\* client passed the liveness probe of this call; when the probe fails the
\* cached entry is discarded, and the client the call returns is a newly
\* built one, cached under that username; after a call that returns None
\* the cache holds no entry for that username.  Entries of other usernames
\* are left alone.
C34_CacheHoldsOnlyLiveClients ==
    [][ev'.op = "get_client" =>
          LET u == ev'.acct
              old == Cached(clients, u)
              new == Cached(clients', u)
              ret == ev'.client
          IN  /\ (ret # None /\ ret = old) => ev'.live
              /\ (old # None /\ ~ev'.live) =>
                    /\ new # old
                    /\ old[1] \notin ClientsIn(clients')
                    /\ ret # None =>
                          /\ ret[1] \notin ClientsIn(clients)
                          /\ new = ret
              /\ (old # None /\ ev'.live) => (ret = old /\ new = old)
              /\ ret = None => new = None
              /\ ret # None => new = ret
              /\ \A x \in UsernamesOf(accounts) \ {u} :
                    Cached(clients', x) = Cached(clients, x)]_vars

\* a call found a cached client that failed the probe, the new login was
\* refused with a challenge, and the cache holds no client of that record
\* while it still holds the client of the other record
C34_Witness ==
    /\ ev.op = "get_client"
    /\ ev.calls >= 3
    /\ ~ev.live
    /\ ev.login = "challenge"
    /\ ev.client = None
    /\ Cached(clients, ev.acct) = None
    /\ DOMAIN clients # {}
    /\ Record(accounts, ev.acct).status = CHALLENGE

---------------------------------------------------------------------------
(* Runs that do not overlap, health_check and the clock, over a day change *)

\* collect_user_media calls that record an outcome in one behaviour
MaxRuns == 3

\* a whole collect_user_media call with a valid username: selection,
\* get_client, and the one mark_account_used call of the run, with
\* success=False when target resolution failed on the account's side
CollectRun ==
    /\ TotalOperations(accounts) < MaxRuns
    /\ UNCHANGED <<settings, now, runs>>
    /\ \E live \in BOOLEAN, login \in LoginOutcomes, success \in BOOLEAN :
        LET i == GetAvailableAccount(accounts, now, settings)
            path == SelectionPath(accounts, now)
        IN  /\ login = "ok" \/ TotalErrors(accounts) < MaxErrors
            /\ IF i = 0
               THEN /\ live /\ login = "ok" /\ success
                    /\ ev' = Returned(Event("run", "", path, <<>>),
                                      FALSE, "no_account", accounts)
                    /\ UNCHANGED <<accounts, clients, pool_file>>
               ELSE
                 LET u == accounts[i].username
                     got == GetClient(accounts, clients, u, live, login)
                     accs == MarkInPool(got.accounts, u, success, now,
                                        settings)
                     e == Event("run", u, path, <<>>)
                 IN  /\ clients' = got.clients
                     /\ IF got.client
                        THEN /\ accounts' = accs
                             /\ pool_file' = accs
                             /\ ev' = Returned(
                                         [e EXCEPT !.marked = <<success>>],
                                         success,
                                         IF success THEN ""
                                         ELSE "resolve_error", accs)
                        ELSE /\ success
                             /\ accounts' = got.accounts
                             /\ pool_file' = got.accounts
                             /\ ev' = Returned(e, FALSE, "no_client",
                                               got.accounts)

NextDaily ==
    \/ CollectRun
    \/ HealthCheck
    \/ Tick

SpecDaily == Init /\ [][NextDaily]_vars

\* C35: in every state reached by runs that do not overlap and
\* health_check calls, every record's operations_today is at most
\* max_daily_operations_per_account.
C35_DailyLimitNeverExceeded ==
    \A i \in 1..Len(accounts) :
        accounts[i].operations_today
            <= settings.max_daily_operations_per_account

---------------------------------------------------------------------------
(* Overlapping runs on a record that a failed login retires *)

\* simultaneous HTTP requests and health_check, with room for a run that
\* starts while another is in flight on a record already used
NextInFlight ==
    \/ \E r \in RunIds : RunStartWithin(r, MaxRuns)
    \/ \E r \in RunIds : Resolve(r)
    \/ \E r \in RunIds : Collect(r)
    \/ HealthCheck

SpecInFlight == Init /\ [][NextInFlight]_vars

\* C36: a record whose status is DEAD stays DEAD under every interleaving
\* of collect runs and health_check calls, a run that was in flight on the
\* record when it became DEAD and records its outcome later included.
C36_DeadStaysDead ==
    [][\A i \in 1..Len(accounts) :
          accounts[i].status = DEAD => accounts'[i].status = DEAD]_vars

---------------------------------------------------------------------------
(* The counters of a record *)

\* C37: every record has total_errors <= total_operations and
\* operations_today <= total_operations in every reachable state.
C37_CountersOrdered ==
    \A i \in 1..Len(accounts) :
        /\ accounts[i].total_errors <= accounts[i].total_operations
        /\ accounts[i].operations_today <= accounts[i].total_operations

\* supporting: operations_today never exceeds total_operations, and
\* total_operations and total_errors never decrease
C37_CountersNeverDecrease ==
    [][\A i \in 1..Len(accounts) :
          /\ accounts'[i].operations_today <= accounts'[i].total_operations
          /\ accounts'[i].total_operations >= accounts[i].total_operations
          /\ accounts'[i].total_errors >= accounts[i].total_errors]_vars

---------------------------------------------------------------------------
(* health_check: what it leaves alone *)

\* a record of the pool with the fields add_account was given
WithCredentials(acc, password, proxy) ==
    acc @@ [password |-> password, proxy |-> proxy,
            session_file |-> SessionFile(acc.username),
            created_at |-> <<StartTime>>]

\* a pool of two records when health_check is called: the first in any
\* state the pool operations produce, with or without a proxy, the second
\* never used and ACTIVE, or retired by a failed login
InitHealth ==
    /\ settings \in Configs
    /\ \E a \in ReconcileRecords(Usernames[1]), password \in Passwords,
          proxy \in Proxies, retired \in BOOLEAN :
          /\ ProducedByPool(a, SelectTime, settings)
          /\ accounts =
               <<WithCredentials(a, password, proxy),
                 WithCredentials(
                    IF retired
                    THEN ClientFailure(NewAccount(Usernames[2]), "error")
                    ELSE NewAccount(Usernames[2]),
                    password, None)>>
    /\ clients = {}
    /\ pool_file = accounts
    /\ now = SelectTime
    /\ runs = [r \in RunIds |-> IdleRun]
    /\ ev = Event("init", "", "", <<>>)

NextHealth == HealthCheck

SpecHealth == InitHealth /\ [][NextHealth]_vars

\* the fields of a record other than status and operations_today
KeptFields(acc) == DOMAIN acc \ {"status", "operations_today"}

\* C38: health_check changes only status and operations_today: it leaves
\* health_score, last_used, total_operations, total_errors, username and
\* the credentials of every record unchanged, adds and removes no record,
\* and does not change the status of an ACTIVE or DEAD record.
C38_HealthCheckFrame ==
    [][ev'.op = "health_check" =>
          /\ Len(accounts') = Len(accounts)
          /\ \A i \in 1..Len(accounts) :
                /\ DOMAIN accounts'[i] = DOMAIN accounts[i]
                /\ \A f \in KeptFields(accounts[i]) :
                      accounts'[i][f] = accounts[i][f]
                /\ accounts[i].status \in {ACTIVE, DEAD} =>
                      accounts'[i].status = accounts[i].status]_vars

\* a health_check reset the count of a record with a proxy that had been
\* in COOLDOWN since the day before and made it ACTIVE, next to a DEAD
\* record
C38_Witness ==
    /\ ev.op = "health_check"
    /\ ev.path = "reactivated"
    /\ accounts[1].status = ACTIVE
    /\ accounts[1].operations_today = 0
    /\ accounts[1].last_used # None
    /\ accounts[1].total_operations > 0
    /\ accounts[1].proxy # None
    /\ accounts[2].status = DEAD

---------------------------------------------------------------------------
(* From the daily limit back to eligibility *)

\* the instant by which a record last used on the first day has passed
\* midnight and its cooldown
RecoveryHorizon ==
    (DateOf(StartTime) + 1) * MinutesPerDay + DefaultCooldownMinutes

\* a pool of one ACTIVE record that is one operation short of the daily
\* limit, last used earlier the same day
InitRecovery ==
    /\ settings \in Configs
    /\ now = StartTime
    /\ \E h \in {100, 95}, age \in {60, 180} :
          LET ops == settings.max_daily_operations_per_account - 1
          IN  accounts =
                <<[NewAccount(Usernames[1]) EXCEPT
                      !.health_score = h,
                      !.total_errors = (100 - h) \div 5,
                      !.operations_today = ops,
                      !.total_operations = ops,
                      !.last_used = <<now - age>>]>>
    /\ clients = {Usernames[1]}
    /\ pool_file = accounts
    /\ runs = [r \in RunIds |-> IdleRun]
    /\ ev = Event("init", "", "", <<>>)

\* mark_account_used at the end of the run that takes the record to the
\* daily limit, on the first day
ReachLimit ==
    /\ accounts[1].status = ACTIVE
    /\ accounts[1].operations_today
          = settings.max_daily_operations_per_account - 1
    /\ DateOf(now) = DateOf(StartTime)
    /\ \E success \in BOOLEAN :
        LET u == accounts[1].username
            accs == MarkInPool(accounts, u, success, now, settings)
        IN  /\ accounts' = accs
            /\ pool_file' = accs
            /\ ev' = Returned(Event("collect", u, "", <<success>>),
                              success, "", accs)
    /\ UNCHANGED <<clients, settings, now, runs>>

\* time passes, up to the horizon
TickRecovery ==
    /\ \E d \in TimeSteps :
        /\ now + d <= RecoveryHorizon
        /\ now' = now + d
    /\ ev' = Event("tick", "", "", <<>>)
    /\ UNCHANGED <<accounts, clients, pool_file, settings, runs>>

NextRecovery ==
    \/ ReachLimit
    \/ TickRecovery
    \/ HealthCheck

\* time advances and health_check keeps being called; the record is not
\* used after it reached the limit
SpecRecovery ==
    /\ InitRecovery
    /\ [][NextRecovery]_vars
    /\ WF_vars(TickRecovery)
    /\ WF_vars(HealthCheck)

\* the record entered COOLDOWN by reaching the daily limit
AtDailyLimit ==
    /\ accounts[1].status = COOLDOWN
    /\ accounts[1].operations_today
          >= settings.max_daily_operations_per_account

\* C39: a record that entered COOLDOWN by reaching the daily limit is
\* eventually eligible again (status ACTIVE, operations_today below the
\* limit, cooldown elapsed), when time advances, health_check keeps being
\* called and the record is not used in the meantime.
C39_LimitedRecordRecovers ==
    AtDailyLimit ~> Eligible(accounts[1], now, settings)

\* a health_check of the next day reset the count of a record that had
\* reached the limit, and the record is eligible
C39_Witness ==
    /\ ev.op = "health_check"
    /\ Eligible(accounts[1], now, settings)
    /\ accounts[1].operations_today = 0
    /\ accounts[1].total_operations
          >= settings.max_daily_operations_per_account
    /\ DateOf(accounts[1].last_used[1]) < DateOf(now)

---------------------------------------------------------------------------
(* Runs that all fail on the account's side *)

\* a whole collect_user_media call whose target resolution fails with an
\* error other than "not found": selection, get_client, and
\* mark_account_used(account, success=False)
FailedRun ==
    /\ TotalOperations(accounts) < MaxFailures
    /\ UNCHANGED <<settings, now, runs>>
    /\ LET i == GetAvailableAccount(accounts, now, settings)
           path == SelectionPath(accounts, now)
       IN  IF i = 0
           THEN /\ ev' = Returned(Event("run", "", path, <<>>),
                                  FALSE, "no_account", accounts)
                /\ UNCHANGED <<accounts, clients, pool_file>>
           ELSE
             LET u == accounts[i].username
                 got == GetClient(accounts, clients, u, TRUE, "ok")
                 accs == MarkInPool(got.accounts, u, FALSE, now, settings)
             IN  /\ clients' = got.clients
                 /\ accounts' = accs
                 /\ pool_file' = accs
                 /\ ev' = Returned(Event("run", u, path, <<FALSE>>),
                                   FALSE, "resolve_error", accs)

NextRetire ==
    \/ FailedRun
    \/ HealthCheck
    \/ Tick

\* a pool of one record on which every run fails
SpecRetire ==
    InitOutcomes /\ [][NextRetire]_vars

\* the step recorded a failed outcome on a record that was ACTIVE
FailedOutcomeOnActive ==
    /\ ev'.op = "run"
    /\ ev'.marked = <<FALSE>>
    /\ Record(accounts, ev'.acct).status = ACTIVE

\* C40: failed outcomes alone do not retire a record:
\* mark_account_used(record, success=False) changes the status of an
\* ACTIVE record only when the daily limit is reached (to COOLDOWN), and
\* an ACTIVE record whose health score is 0 is selected by
\* get_available_account whenever its quota and cooldown allow.
C40_FailuresDoNotRetire ==
    [][/\ FailedOutcomeOnActive =>
            LET new == Record(accounts', ev'.acct)
                full == new.operations_today
                           >= settings.max_daily_operations_per_account
            IN  /\ ~full => new.status = ACTIVE
                /\ full => new.status = COOLDOWN
                /\ new.status \in {ACTIVE, COOLDOWN}
        /\ \A i \in 1..Len(accounts') :
              (/\ accounts'[i].status = ACTIVE
               /\ accounts'[i].health_score = 0
               /\ Eligible(accounts'[i], now', settings')) =>
                  /\ i \in AvailableAccounts(accounts', now')
                  /\ GetAvailableAccount(accounts', now', settings') # 0]_vars

\* a run selected, by the normal path, a record whose health score was
\* already 0 after twenty failures, and recorded one more failure on it
C40_Witness ==
    /\ ev.op = "run"
    /\ ev.path = "normal"
    /\ ev.marked = <<FALSE>>
    /\ accounts[1].status = ACTIVE
    /\ accounts[1].health_score = 0
    /\ accounts[1].total_errors = 21

====
